---------------------------- MODULE Spec2Model ----------------------------
(***************************************************************************)
(* Multi-model deep-analysis pipeline of the essay-grading backend:        *)
(*   ai_service.py             AIService.correct_essay, _call_ai_model,    *)
(*                             _retry_with_backoff, RateLimiter            *)
(*   deep_analysis.py          DeepAnalysisService.analyze_deep            *)
(*   enhanced_deep_analysis.py EnhancedDeepAnalysisService                 *)
(*                                                                         *)
(* Texts are modelled by what the code reads from them: an essay by its    *)
(* length and by the sequence of its fragments, a theme by the sequence of *)
(* its fragments, a model reply by the model that wrote it and by the N of *)
(* the "NOTA FINAL: N/1000" marker it carries (Null when it carries none). *)
(* Concatenating two texts concatenates their fragments.                   *)
(* Coroutines are processes; a step runs one of them from a suspension     *)
(* point (a cache round trip, the sleep before a retry) to the next.  A    *)
(* Redis command takes effect where it is issued.                          *)
(***************************************************************************)
EXTENDS Integers, Sequences, FiniteSets, TLC

-----------------------------------------------------------------------------
(* Bounds of the model *)

MaxRetriesCfg == 0      \* largest RetryConfig.max_retries explored
MaxTimers     == 2      \* pending availability resets tracked per model
MaxResets     == 1      \* availability resets that wake up while a request runs
FeedbackLen   == 1000   \* length of a model reply
ThemeLen      == 40     \* length of a theme
MaxNow        == 2      \* last clock value read by the rate limiter
MaxHistory    == 3      \* answers of the rate limiter kept in the history
MaxResults    == 3      \* longest result list with freely chosen scores
MaxTasks      == 2      \* tasks enqueued in the task queue
MaxTaskRetries == 1     \* largest Task.max_retries explored

-----------------------------------------------------------------------------
(* Program constants *)

Null == -1              \* Python None in an Optional[float] / Optional[int]

ModelKeys == << "deepseek_14b", "llama_253b", "deepseek_r1",
                "kimi_k2", "qwen3_235b", "llama_49b" >>

Models == { ModelKeys[i] : i \in 1..Len(ModelKeys) }

ParagraphModel == "deepseek_14b"
FullModel      == "llama_253b"
MaxParagraphLen == 2000
MaxFullLen      == 10000

Phase1Models == << "kimi_k2", "qwen3_235b", "deepseek_r1" >>
Phase2Model  == "llama_49b"
MinSuccessfulModels == 1
MaxConcurrentModels == 4

SynthesisTemplateLen == 2055
ExamTypeLen == 4

-----------------------------------------------------------------------------
VARIABLES
  config,      \* AIServiceConfig: max_retries, fallback_enabled, window_size, requests_per_minute
  available,   \* ai_models[m]["available"]
  timers,      \* number of pending _reset_model_availability tasks per model
  resets,      \* how many of those tasks have woken up so far
  cacheUp,     \* cache_manager.is_connected
  apiDown,     \* models whose external endpoint is failing (client.chat.completions.create raises)
  cache,       \* Redis: set of <<key, value>> pairs, at most one per key
  now,         \* last value of time.time() read by the rate limiter
  requests,    \* RateLimiter.requests: key -> sequence of timestamps
  req,         \* the orchestration request in progress
  calls,       \* the correct_essay calls of the request (fan-out tasks 1..4; 4 is also the synthesis call)
  launched,    \* model ids the fan-out was launched for, in task order
  out,         \* what the orchestrator has produced so far
  prev,        \* the call that ended before the one under way, and what it returned
  clients,     \* the coroutines that call the rate limiter or one model directly, or the analyze_deep run that waits while another one runs
  history,     \* what the rate limiter has answered them, oldest first
  task_queue   \* the TaskQueue instance: is_running, its lists and task hash, its workers

vars == << config, available, timers, resets, cacheUp, apiDown, cache, now, requests,
           req, calls, launched, out, prev, clients, history, task_queue >>

svc    == << config, available, timers, resets, cacheUp, apiDown >>
lim    == << now, requests >>
run    == << req, calls, launched, out, prev >>
lcl    == << clients, history, task_queue >>

-----------------------------------------------------------------------------
(* Values *)

CallIds == 1..4
SynthCall == 4

NoFeedback     == [by |-> "", nota |-> Null]
CannedFeedback == [by |-> "canned", nota |-> Null]

Range(s) == { s[i] : i \in DOMAIN s }

RECURSIVE SeqSum(_)
SeqSum(s) == IF s = << >> THEN 0 ELSE Head(s) + SeqSum(Tail(s))

RECURSIVE SetToSeq(_)
SetToSeq(S) == IF S = {} THEN << >>
               ELSE LET x == CHOOSE y \in S : TRUE
                    IN  << x >> \o SetToSeq(S \ {x})


-----------------------------------------------------------------------------
(* Texts and cache keys *)

\* The essays of the model: the 9000-character one is the 1500-character
\* one followed by the fragment b, the 10001-character one goes on with c.
EssayText(n) ==
  CASE n = 0    -> << >>
    [] n = 3    -> << " " >>
    [] n = 1500 -> << "a" >>
    [] n = 9000 -> << "a", "b" >>
    [] OTHER    -> << "a", "b", "c" >>

\* An essay of n characters; a synthesis prompt is a text that embeds outputs.
Essay(n) == [len |-> n, essay |-> n, outputs |-> {}, text |-> EssayText(n)]

\* str.strip: a text of white space only strips to the empty string
strip(text) == SelectSeq(text, LAMBDA f : f # " ")

\* hashlib.md5 of a string: the digest stands for the string it was taken of
md5(text) == text

\* content_hash = md5(f"{content}{theme}{analysis_type}")
content_hash(content, theme, atype) ==
  md5(content.text \o theme \o << atype >>)

\* CacheKeys.ai_result(content_hash, model): f"ai:result:{model}:{content_hash}"
ai_cache_key(content, theme, model, atype) ==
  [ns |-> "ai:result", part |-> model,
   hash |-> content_hash(content, theme, atype)]

\* f"deep_analysis:{analysis_type}:{md5(content + theme + analysis_type + 'deep')}"
generate_deep_cache_key(content, theme, atype) ==
  [ns |-> "deep_analysis", part |-> atype,
   hash |-> md5(content.text \o theme \o << atype >> \o << "deep" >>)]

\* f"enhanced_deep_analysis:{analysis_type}:{md5(... + 'enhanced')}"
generate_enhanced_cache_key(content, theme, atype) ==
  [ns |-> "enhanced_deep_analysis", part |-> atype,
   hash |-> md5(content.text \o theme \o << atype >> \o << "enhanced" >>)]

\* a CacheManager.get that still answers from the store when disconnected
cache_hit_when_disconnected(k) == k \in DOMAIN cache

\* CacheManager.get: nothing when disconnected or when the key is absent
cache_hit(k) == cacheUp /\ k \in DOMAIN cache

\* CacheManager.set: a no-op returning False when disconnected
cache_set(k, v) ==
  IF cacheUp
    THEN [x \in (DOMAIN cache) \cup {k} |-> IF x = k THEN v ELSE cache[x]]
    ELSE cache

-----------------------------------------------------------------------------
(* RateLimiter.is_allowed, run under the limiter's lock at clock value t *)

RECURSIVE SeqMin(_)
SeqMin(s) == IF Len(s) = 1 THEN s[1]
             ELSE LET r == SeqMin(Tail(s)) IN IF s[1] < r THEN s[1] ELSE r

\* a limiter that still allows a key that has reached the limit
is_allowed_at_limit(key, t) ==
  LET window_start == t - config.window_size
      old    == IF key \in DOMAIN requests THEN requests[key] ELSE << >>
      pruned == SelectSeq(old, LAMBDA x : x > window_start)
      ok     == Len(pruned) <= config.requests_per_minute
      kept   == IF ok THEN Append(pruned, t) ELSE pruned
      wait   == IF ok THEN Null
                ELSE LET w == SeqMin(pruned) + config.window_size - t
                     IN  IF w > 0 THEN w ELSE 0
  IN  [allowed |-> ok, wait_time |-> wait,
       requests |-> [k \in (DOMAIN requests) \cup {key} |->
                       IF k = key THEN kept ELSE requests[k]]]

\* a limiter that keeps a timestamp lying exactly on the window's edge
is_allowed_keeping_edge(key, t) ==
  LET window_start == t - config.window_size
      old    == IF key \in DOMAIN requests THEN requests[key] ELSE << >>
      pruned == SelectSeq(old, LAMBDA x : x >= window_start)
      ok     == Len(pruned) < config.requests_per_minute
      kept   == IF ok THEN Append(pruned, t) ELSE pruned
      wait   == IF ok THEN Null
                ELSE LET w == SeqMin(pruned) + config.window_size - t
                     IN  IF w > 0 THEN w ELSE 0
  IN  [allowed |-> ok, wait_time |-> wait,
       requests |-> [k \in (DOMAIN requests) \cup {key} |->
                       IF k = key THEN kept ELSE requests[k]]]

\* a limiter with one bucket for all keys
is_allowed_one_bucket(key, t) ==
  LET window_start == t - config.window_size
      old    == IF key \in DOMAIN requests THEN requests[key] ELSE << >>
      pruned == SelectSeq(old, LAMBDA x : x > window_start)
      ok     == Len(pruned) < config.requests_per_minute
      kept   == IF ok THEN Append(pruned, t) ELSE pruned
      wait   == IF ok THEN Null
                ELSE LET w == SeqMin(pruned) + config.window_size - t
                     IN  IF w > 0 THEN w ELSE 0
  IN  [allowed |-> ok, wait_time |-> wait,
       requests |-> [k \in (DOMAIN requests) \cup {key} |-> kept]]

is_allowed(key, t) ==
  LET window_start == t - config.window_size
      old    == IF key \in DOMAIN requests THEN requests[key] ELSE << >>
      pruned == SelectSeq(old, LAMBDA x : x > window_start)
      ok     == Len(pruned) < config.requests_per_minute
      kept   == IF ok THEN Append(pruned, t) ELSE pruned
      wait   == IF ok THEN Null
                ELSE LET w == SeqMin(pruned) + config.window_size - t
                     IN  IF w > 0 THEN w ELSE 0
  IN  [allowed |-> ok, wait_time |-> wait,
       requests |-> [k \in (DOMAIN requests) \cup {key} |->
                       IF k = key THEN kept ELSE requests[k]]]

\* a status that counts every stored timestamp, expired or not
get_user_status_unpruned(key, t) ==
  LET valid_requests ==
        IF key \in DOMAIN requests THEN requests[key] ELSE << >>
      requests_made == Len(valid_requests)
      requests_remaining ==
        IF config.requests_per_minute - requests_made > 0
          THEN config.requests_per_minute - requests_made ELSE 0
  IN  [requests_made |-> requests_made,
       requests_remaining |-> requests_remaining,
       reset_time |-> IF valid_requests # << >> /\ requests_remaining = 0
                        THEN SeqMin(valid_requests) + config.window_size
                        ELSE Null]

\* RateLimiter.get_user_status, run under the lock at clock value t
get_user_status(key, t) ==
  LET window_start == t - config.window_size
      valid_requests ==
        IF key \in DOMAIN requests
          THEN SelectSeq(requests[key], LAMBDA x : x > window_start)
          ELSE << >>
      requests_made == Len(valid_requests)
      requests_remaining ==
        IF config.requests_per_minute - requests_made > 0
          THEN config.requests_per_minute - requests_made ELSE 0
  IN  [requests_made |-> requests_made,
       requests_remaining |-> requests_remaining,
       reset_time |-> IF valid_requests # << >> /\ requests_remaining = 0
                        THEN SeqMin(valid_requests) + config.window_size
                        ELSE Null]

NoStatus == [requests_made |-> 0, requests_remaining |-> 0, reset_time |-> Null]

\* a coroutine that is not calling the limiter
IdleClient == [pc |-> "idle", op |-> "", key |-> ""]

\* a coroutine calls is_allowed or get_user_status and waits for the lock
LimiterCall(p, op, key) ==
  /\ clients[p].pc = "idle"
  /\ Len(history) < MaxHistory
  /\ clients' = [clients EXCEPT ![p] = [pc |-> "waiting", op |-> op, key |-> key]]
  /\ UNCHANGED << svc, cache, lim, run, history, task_queue >>

\* the coroutine gets the lock and runs the body of is_allowed: the clock is
\* read, the key's list pruned and, if the call is allowed, extended
IsAllowed(p) ==
  /\ clients[p].pc = "waiting"
  /\ clients[p].op = "is_allowed"
  /\ Len(history) < MaxHistory
  /\ \E t \in { 30 * i : i \in 0..MaxNow } :
       /\ t >= now
       /\ LET r == is_allowed(clients[p].key, t)
          IN  /\ requests' = r.requests
              /\ history' = Append(history,
                               [op |-> "is_allowed", key |-> clients[p].key,
                                t |-> t, allowed |-> r.allowed,
                                wait_time |-> r.wait_time, status |-> NoStatus])
       /\ now' = t
  /\ clients' = [clients EXCEPT ![p] = IdleClient]
  /\ UNCHANGED << svc, cache, run, task_queue >>

\* the coroutine gets the lock and runs the body of get_user_status
GetUserStatus(p) ==
  /\ clients[p].pc = "waiting"
  /\ clients[p].op = "get_user_status"
  /\ Len(history) < MaxHistory
  /\ \E t \in { 30 * i : i \in 0..MaxNow } :
       /\ t >= now
       /\ history' = Append(history,
                        [op |-> "get_user_status", key |-> clients[p].key,
                         t |-> t, allowed |-> FALSE, wait_time |-> Null,
                         status |-> get_user_status(clients[p].key, t)])
       /\ now' = t
  /\ clients' = [clients EXCEPT ![p] = IdleClient]
  /\ UNCHANGED << svc, cache, requests, run, task_queue >>

-----------------------------------------------------------------------------
(* AIService.correct_essay as a coroutine *)

NoResult == [feedback |-> NoFeedback, score |-> Null, model |-> "",
             is_fallback |-> FALSE]

\* tries[i] is what _retry_with_backoff has done so far for the i-th model
\* tried: n invocations of _call_ai_model, failed of them failed, logged
\* usage-log entries written, ok when the last one answered, slept the delays
\* it has slept
IdleCall == [st |-> "none", content |-> Essay(0), theme |-> << >>, atype |-> "",
             model_key |-> "", primary |-> "", idx |-> 0, attempt |-> 0,
             invoked |-> FALSE, cached |-> FALSE, err |-> "",
             result |-> NoResult, tries |-> << >>, user |-> ""]

\* the arguments of a correct_essay call
NewCall(content, theme, model_key, atype) ==
  [IdleCall EXCEPT !.content = content, !.theme = theme,
                   !.atype = atype, !.model_key = model_key]

Finished(c) == calls[c].st \in {"returned", "raised", "cancelled"}

\* the model correct_essay goes to first, whatever model_key it was given
select_model(model_key, atype) ==
  IF atype = "paragraph" THEN ParagraphModel ELSE FullModel

length_limit(atype) ==
  IF atype = "paragraph" THEN MaxParagraphLen ELSE MaxFullLen

\* a fallback loop that goes through the whole registry, the primary included
TryOrder_whole_registry(primary) ==
  << primary >> \o ModelKeys

\* the primary model, then every other registered model in registry order
TryOrder(primary) ==
  << primary >> \o SelectSeq(ModelKeys, LAMBDA m : m # primary)

\* _extract_score on a reply that carries a marker "NOTA FINAL: N/T" or none
\* (nota is Null): the patterns of a full analysis ask for "/1000" and give
\* the digits N as they are; a paragraph reply without an assessment gives 400
extract_score(fb, atype) ==
  IF atype = "paragraph" THEN 400
  ELSE IF fb.nota # Null /\ fb.total = 1000 THEN fb.nota
  ELSE Null

\* what the external API may answer with
Replies(m) == { [by |-> m, nota |-> n, total |-> 1000] : n \in {Null, 850} }

get_fallback_response == [feedback |-> CannedFeedback, score |-> Null,
                          model |-> "", is_fallback |-> TRUE]

\* a correct_essay that goes to the models whatever the cache holds
correct_essay_ignoring_hit(content, theme, model_key, atype) ==
  LET cl      == NewCall(content, theme, model_key, atype)
      primary == select_model(model_key, atype)
      key     == ai_cache_key(content, theme, primary, atype)
  IN  IF content.len > length_limit(atype)
        THEN [cl EXCEPT !.st = "raised", !.primary = primary, !.err = "too_long"]
      ELSE IF content.len = 0 \/ strip(content.text) = << >>
        THEN [cl EXCEPT !.st = "raised", !.primary = primary, !.err = "empty"]
      ELSE IF ~cacheUp
        THEN [cl EXCEPT !.st = "running", !.primary = primary,
                        !.idx = 1, !.attempt = 0]
      ELSE [cl EXCEPT !.st = "cache_get", !.primary = primary]

\* correct_essay from its call to its first suspension point: model
\* selection, validation, cache gate.  A connected cache suspends the
\* coroutine on the GET; a disconnected one answers None at once.
correct_essay(content, theme, model_key, atype) ==
  LET cl      == NewCall(content, theme, model_key, atype)
      primary == select_model(model_key, atype)
      key     == ai_cache_key(content, theme, primary, atype)
  IN  IF content.len > length_limit(atype)
        THEN [cl EXCEPT !.st = "raised", !.primary = primary, !.err = "too_long"]
      ELSE IF content.len = 0 \/ strip(content.text) = << >>
        THEN [cl EXCEPT !.st = "raised", !.primary = primary, !.err = "empty"]
      ELSE IF ~cacheUp
        THEN [cl EXCEPT !.st = "running", !.primary = primary,
                        !.idx = 1, !.attempt = 0]
      ELSE IF cache_hit(key)
        THEN [cl EXCEPT !.st = "cache_get", !.primary = primary,
                        !.cached = TRUE, !.result = cache[key]]
      ELSE [cl EXCEPT !.st = "cache_get", !.primary = primary]

BaseDelay == 1
MaxDelay == 60
ExponentialBase == 2

RECURSIVE Pow(_, _)
Pow(b, e) == IF e = 0 THEN 1 ELSE b * Pow(b, e - 1)

\* the delay _retry_with_backoff sleeps after the failed attempt number attempt
retry_delay(attempt) ==
  LET d == BaseDelay * Pow(ExponentialBase, attempt)
  IN  IF d < MaxDelay THEN d ELSE MaxDelay

\* the call record once _call_ai_model has been invoked on TryOrder[idx]
Invoked(cl, ok) ==
  LET old == IF Len(cl.tries) >= cl.idx THEN cl.tries[cl.idx]
             ELSE [model |-> TryOrder(cl.primary)[cl.idx], n |-> 0,
                   failed |-> 0, logged |-> 0, ok |-> FALSE,
                   slept |-> << >>]
      new == [old EXCEPT !.n = old.n + 1,
                         !.failed = old.failed + (IF ok THEN 0 ELSE 1),
                         !.ok = ok]
  IN  [cl EXCEPT !.invoked = TRUE,
                 !.tries = [i \in 1..cl.idx |->
                              IF i = cl.idx THEN new ELSE cl.tries[i]]]

\* a _call_ai_model that writes a usage-log entry for a flagged model too
Contact_logging_refusals(nx, i, contacted) ==
  [nx EXCEPT !.tries[i].logged = @ + (IF nx.user # "" THEN 1 ELSE 0)]

\* _call_ai_model either finds the model flagged and raises at once, or
\* contacts the API and, for an identified user, logs the usage
Contact(nx, i, contacted) ==
  [nx EXCEPT !.tries[i].logged = @ + (IF contacted /\ nx.user # "" THEN 1 ELSE 0)]

\* where the coroutine goes after a failed attempt on TryOrder[idx]: the
\* sleep before a retry, the next model, or the end of the fallback chain
AfterFailure(cl) ==
  LET f == Invoked(cl, FALSE)
  IN  IF cl.attempt < config.max_retries
        THEN [f EXCEPT !.attempt = cl.attempt + 1,
                       !.tries[cl.idx].slept = Append(@, retry_delay(cl.attempt))]
      ELSE IF cl.idx < Len(TryOrder(cl.primary))
        THEN [f EXCEPT !.idx = cl.idx + 1, !.attempt = 0]
      ELSE IF config.fallback_enabled
        THEN [f EXCEPT !.st = "returned", !.result = get_fallback_response]
      ELSE [f EXCEPT !.st = "raised", !.err = "unavailable"]

\* a result dict that flags an answer obtained on a retry as a fallback
model_answer_flagging_retries(cl, m, fb) ==
  [feedback |-> fb, score |-> extract_score(fb, cl.atype), model |-> m,
   is_fallback |-> (cl.idx > 1 \/ cl.attempt > 0)]

\* the result dict correct_essay builds from the answer fb of model m
model_answer(cl, m, fb) ==
  [feedback |-> fb, score |-> extract_score(fb, cl.atype), model |-> m,
   is_fallback |-> (cl.idx > 1)]

\* _call_ai_model, attempt after attempt, from the attempt on TryOrder[idx]
\* up to the coroutine's next suspension point (the sleep before a retry,
\* the cache SET after an answer) or its end.  The client call is blocking,
\* so nothing else runs in between.  av and tm are the availability flags
\* and pending resets as the attempts leave them.
RECURSIVE call_ai_models(_, _, _)
call_ai_models(cl, av, tm) ==
  LET m == TryOrder(cl.primary)[cl.idx]
      failed(av2, tm2) ==
        LET nx == Contact(AfterFailure(cl), cl.idx, av[m])
        IN  IF nx.st = "running" /\ nx.attempt = 0
              THEN call_ai_models(nx, av2, tm2)
              ELSE { [call |-> nx, available |-> av2, timers |-> tm2] }
  IN  IF ~av[m]
        THEN \* flagged unavailable: no contact with the API
             failed(av, tm)
      ELSE IF m \notin apiDown
        THEN \* the API answers
             { [call |-> [Contact(Invoked(cl, TRUE), cl.idx, TRUE) EXCEPT
                            !.st = IF cacheUp THEN "cache_set" ELSE "returned",
                            !.result = model_answer(cl, m, fb)],
                available |-> av, timers |-> tm] : fb \in Replies(m) }
      ELSE IF tm[m] < MaxTimers
        THEN \* the API call fails: flag the model and schedule its reset
             failed([av EXCEPT ![m] = FALSE], [tm EXCEPT ![m] = @ + 1])
      ELSE {}

\* a call that caches whatever it is about to return, the canned response too
CE_Run_caching_all(c, cl) ==
  \E o \in call_ai_models(cl, available, timers) :
    /\ calls' = [calls EXCEPT ![c] = o.call]
    /\ available' = o.available
    /\ timers' = o.timers
    /\ cache' = IF o.call.result # NoResult
                  THEN cache_set(ai_cache_key(cl.content, cl.theme,
                                              cl.primary, cl.atype),
                                 o.call.result)
                  ELSE cache

\* call c runs its attempts from the position cl
CE_Run(c, cl) ==
  \E o \in call_ai_models(cl, available, timers) :
    /\ calls' = [calls EXCEPT ![c] = o.call]
    /\ available' = o.available
    /\ timers' = o.timers
    /\ cache' = IF o.call.result.model # ""
                  THEN cache_set(ai_cache_key(cl.content, cl.theme,
                                              cl.primary, cl.atype),
                                 o.call.result)
                  ELSE cache

\* the cache answers: a hit returns the cached result, a miss goes on to the
\* model calls, a completed SET lets the coroutine return its result
CE_CacheReply(c) ==
  /\ calls[c].st \in {"cache_get", "cache_set"}
  /\ IF calls[c].st = "cache_set" \/ calls[c].cached
       THEN /\ calls' = [calls EXCEPT ![c].st = "returned"]
            /\ UNCHANGED << available, timers, cache >>
       ELSE CE_Run(c, [calls[c] EXCEPT !.st = "running", !.idx = 1,
                                       !.attempt = 0])
  /\ UNCHANGED << config, resets, cacheUp, apiDown, lim, req, launched, out, prev, lcl >>

\* a task that has not run yet starts, or a retry sleep is over
CE_Attempt(c) ==
  /\ calls[c].st = "running"
  /\ CE_Run(c, calls[c])
  /\ UNCHANGED << config, resets, cacheUp, apiDown, lim, req, launched, out, prev, lcl >>

\* asyncio.wait_for cancels the coroutine where it is suspended: on a cache
\* round trip or in the sleep before a retry
CE_Timeout(c) ==
  /\ req.kind # "correct"
  /\ \/ calls[c].st \in {"cache_get", "cache_set"}
     \/ calls[c].st = "running" /\ calls[c].attempt > 0
  /\ calls' = [calls EXCEPT ![c].st = "cancelled", ![c].err = "timeout",
                             ![c].result = NoResult]
  /\ UNCHANGED << svc, cache, lim, req, launched, out, prev, lcl >>

\* a reset task that wakes up and leaves the flag as it is
ResetModelAvailability_keeping_flag(m) ==
  /\ timers[m] > 0
  /\ resets < MaxResets
  /\ timers' = [timers EXCEPT ![m] = @ - 1]
  /\ resets' = resets + 1
  /\ UNCHANGED << config, available, cacheUp, apiDown, cache, lim, req, calls,
                  launched, out, prev, lcl >>

\* _reset_model_availability waking up after its delay
ResetModelAvailability(m) ==
  /\ timers[m] > 0
  /\ resets < MaxResets
  /\ available' = [available EXCEPT ![m] = TRUE]
  /\ timers' = [timers EXCEPT ![m] = @ - 1]
  /\ resets' = resets + 1
  /\ UNCHANGED << config, cacheUp, apiDown, cache, lim, req, calls, launched, out, prev, lcl >>

-----------------------------------------------------------------------------
(* The orchestrators' shared pieces *)

\* no result object built or read back yet
NoReturn == [content_hash |-> << >>]

IdleReq == [kind |-> "", pc |-> "idle", content |-> 0, theme |-> << >>,
            atype |-> "", user |-> "", err |-> "", wait_time |-> Null,
            from_cache |-> FALSE, result |-> NoReturn]

NoPhase2 == [started |-> FALSE, success |-> FALSE, final_score |-> Null,
             reliability_level |-> "", feedback |-> NoFeedback, error |-> ""]

NoOut == [model_results |-> << >>, successful_models |-> 0,
          phase2 |-> NoPhase2, handed |-> FALSE]

NoPrev == [set |-> FALSE, count |-> 0, reliability_level |-> "",
           phase2 |-> "", scores |-> {}, call |-> IdleReq]

\* the priority queues in the order get_next_task goes through them
Priorities == << "critical", "high", "normal", "low" >>

Workers == {"worker-1", "worker-2"}

\* task names: a handler that raises or times out on every execution, one
\* that sometimes does, and a name no handler is registered for
TaskNames == {"fails", "flaky", "unknown"}

task_handlers == {"fails", "flaky"}

\* a worker between two tasks
IdleWorker == [pc |-> "idle", task |-> 0, retry_count |-> 0, success |-> FALSE]

\* TaskQueue() before connect() and start_workers()
NoQueue == [is_running |-> FALSE,
            pending |-> [p \in Range(Priorities) |-> << >>],
            processing |-> << >>, completed |-> << >>, failed |-> << >>,
            notifications |-> << >>,
            data |-> << >>, workers |-> << >>, executed |-> << >>]

\* the delay of the reset task that a failed invocation creates
ResetDelay == 300

Invokers == 1..3

\* the clock values at which something happens: every half delay
CooldownInstants == { (ResetDelay \div 2) * i : i \in 0..(MaxNow + 1) }

IdleInvoker == [pc |-> "idle", user |-> "", contacted_at |-> Null,
                due |-> Null, reset_at |-> Null]

\* a run that has not started
NoRun == [req |-> IdleReq, calls |-> [c \in CallIds |-> IdleCall],
          launched |-> << >>, out |-> NoOut]

\* _analyze_with_model / _analyze_with_phase1_model: the task wrapped around
\* one correct_essay call, once that call has ended
analyze_with_model(model_key, cl) ==
  IF cl.st = "returned"
    THEN [model |-> model_key, feedback |-> cl.result.feedback,
          score |-> cl.result.score, success |-> TRUE, error |-> ""]
    ELSE [model |-> model_key, feedback |-> NoFeedback, score |-> Null,
          success |-> FALSE,
          error |-> IF cl.st = "cancelled" THEN "timed out" ELSE "failed"]

\* a gather that resumed on the first finished task
gather_first_completed(ids) == \E c \in ids : Finished(c)

\* await asyncio.gather(*tasks, return_exceptions=True) resumes when this holds
gather_done(ids) == \A c \in ids : Finished(c)

-----------------------------------------------------------------------------
(* Result objects and their cached form *)

\* a member of the enum AnalysisReliability; its .value is what gets cached
ReliabilityValues == {"very_high", "high", "medium", "low", "very_low"}

AnalysisReliability(v) == [enum |-> "AnalysisReliability", value |-> v]

MinModelsForConsensus == 2
OutlierThreshold == 2

RECURSIVE sorted(_)
sorted(s) ==
  IF s = << >> THEN << >>
  ELSE LET i == CHOOSE j \in DOMAIN s : \A k \in DOMAIN s : s[j] <= s[k]
       IN  << s[i] >> \o sorted([k \in 1..(Len(s) - 1) |->
                                    IF k < i THEN s[k] ELSE s[k + 1]])

\* the middle of the list as it comes
median_unsorted(s) ==
  LET t == s
      n == Len(t)
  IN  IF n % 2 = 1 THEN t[(n + 1) \div 2]
      ELSE (t[n \div 2] + t[n \div 2 + 1]) \div 2

\* statistics.median: the middle value, or the mean of the two middle ones
median(s) ==
  LET t == sorted(s)
      n == Len(t)
  IN  IF n % 2 = 1 THEN t[(n + 1) \div 2]
      ELSE (t[n \div 2] + t[n \div 2 + 1]) \div 2

\* floor(a * c / d) without forming a * c
MulDiv(a, c, d) == (a \div d) * c + ((a % d) * c) \div d

\* metrics whose consensus score is the median of all the scores, outliers
\* included
calculate_consensus_metrics_keeping_outliers(model_results) ==
  LET successful_results ==
        SelectSeq(model_results, LAMBDA r : r.success /\ r.score # Null)
      n == Len(successful_results)
      scores == [i \in 1..n |-> successful_results[i].score]
      S == SeqSum(scores)
      Q == SeqSum([i \in 1..n |-> (n * scores[i] - S) * (n * scores[i] - S)])
      outliers ==
        SelectSeq(successful_results,
                  LAMBDA r : /\ Q > 0
                             /\ (n * r.score - S) * (n * r.score - S) * (n - 1)
                                  > OutlierThreshold * OutlierThreshold * Q)
      outlier_models == [i \in 1..Len(outliers) |-> outliers[i].model]
      \* (1 - std_dev / mean) * 100 >= p for a whole p:
      \* std_dev / mean <= (100 - p) / 100
      agreement_at_least(p) ==
        Q <= MulDiv(S * S, (100 - p) * (100 - p) * (n - 1), 10000)
      \* agreement_percentage, by its integer part
      agreement_percentage ==
        IF S > 0
          THEN LET ps == { p \in 0..100 : agreement_at_least(p) }
               IN  IF ps = {} THEN 0 ELSE CHOOSE p \in ps : \A q \in ps : q <= p
          ELSE 0
      level == IF agreement_percentage >= 90 THEN "very_high"
               ELSE IF agreement_percentage >= 75 THEN "high"
               ELSE IF agreement_percentage >= 60 THEN "medium"
               ELSE IF agreement_percentage >= 40 THEN "low"
               ELSE "very_low"
      kept == successful_results
  IN  IF n < MinModelsForConsensus
        THEN [score_variance |-> [num |-> 0, den |-> 1],
              score_std_dev |-> [squared |-> [num |-> 0, den |-> 1]],
              agreement_percentage |-> 0,
              reliability_level |-> AnalysisReliability("very_low"),
              outlier_models |-> << >>,
              consensus_score |-> Null]
        ELSE [score_variance |-> [num |-> Q, den |-> n * n * (n - 1)],
              score_std_dev |-> [squared |-> [num |-> Q,
                                              den |-> n * n * (n - 1)]],
              agreement_percentage |-> agreement_percentage,
              reliability_level |-> AnalysisReliability(level),
              outlier_models |-> outlier_models,
              consensus_score |->
                IF kept # << >>
                  THEN median([i \in 1..Len(kept) |-> kept[i].score])
                  ELSE S \div n]

\* metrics whose agreement is taken on the standard deviation of the
\* population, not of the sample
calculate_consensus_metrics_population(model_results) ==
  LET successful_results ==
        SelectSeq(model_results, LAMBDA r : r.success /\ r.score # Null)
      n == Len(successful_results)
      scores == [i \in 1..n |-> successful_results[i].score]
      S == SeqSum(scores)
      Q == SeqSum([i \in 1..n |-> (n * scores[i] - S) * (n * scores[i] - S)])
      outliers ==
        SelectSeq(successful_results,
                  LAMBDA r : /\ Q > 0
                             /\ (n * r.score - S) * (n * r.score - S) * (n - 1)
                                  > OutlierThreshold * OutlierThreshold * Q)
      outlier_models == [i \in 1..Len(outliers) |-> outliers[i].model]
      \* (1 - std_dev / mean) * 100 >= p for a whole p:
      \* std_dev / mean <= (100 - p) / 100
      agreement_at_least(p) ==
        Q <= MulDiv(S * S, (100 - p) * (100 - p) * n, 10000)
      \* agreement_percentage, by its integer part
      agreement_percentage ==
        IF S > 0
          THEN LET ps == { p \in 0..100 : agreement_at_least(p) }
               IN  IF ps = {} THEN 0 ELSE CHOOSE p \in ps : \A q \in ps : q <= p
          ELSE 0
      level == IF agreement_percentage >= 90 THEN "very_high"
               ELSE IF agreement_percentage >= 75 THEN "high"
               ELSE IF agreement_percentage >= 60 THEN "medium"
               ELSE IF agreement_percentage >= 40 THEN "low"
               ELSE "very_low"
      kept == SelectSeq(successful_results,
                        LAMBDA r : r.model \notin Range(outlier_models))
  IN  IF n < MinModelsForConsensus
        THEN [score_variance |-> [num |-> 0, den |-> 1],
              score_std_dev |-> [squared |-> [num |-> 0, den |-> 1]],
              agreement_percentage |-> 0,
              reliability_level |-> AnalysisReliability("very_low"),
              outlier_models |-> << >>,
              consensus_score |-> Null]
        ELSE [score_variance |-> [num |-> Q, den |-> n * n * (n - 1)],
              score_std_dev |-> [squared |-> [num |-> Q,
                                              den |-> n * n * (n - 1)]],
              agreement_percentage |-> agreement_percentage,
              reliability_level |-> AnalysisReliability(level),
              outlier_models |-> outlier_models,
              consensus_score |->
                IF kept # << >>
                  THEN median([i \in 1..Len(kept) |-> kept[i].score])
                  ELSE S \div n]

\* metrics that take a single score for a consensus
calculate_consensus_metrics_from_one(model_results) ==
  LET successful_results ==
        SelectSeq(model_results, LAMBDA r : r.success /\ r.score # Null)
      n == Len(successful_results)
      scores == [i \in 1..n |-> successful_results[i].score]
      S == SeqSum(scores)
      Q == SeqSum([i \in 1..n |-> (n * scores[i] - S) * (n * scores[i] - S)])
      outliers ==
        SelectSeq(successful_results,
                  LAMBDA r : /\ Q > 0
                             /\ (n * r.score - S) * (n * r.score - S) * (n - 1)
                                  > OutlierThreshold * OutlierThreshold * Q)
      outlier_models == [i \in 1..Len(outliers) |-> outliers[i].model]
      \* (1 - std_dev / mean) * 100 >= p for a whole p:
      \* std_dev / mean <= (100 - p) / 100
      agreement_at_least(p) ==
        Q <= MulDiv(S * S, (100 - p) * (100 - p) * (n - 1), 10000)
      \* agreement_percentage, by its integer part
      agreement_percentage ==
        IF S > 0
          THEN LET ps == { p \in 0..100 : agreement_at_least(p) }
               IN  IF ps = {} THEN 0 ELSE CHOOSE p \in ps : \A q \in ps : q <= p
          ELSE 0
      level == IF agreement_percentage >= 90 THEN "very_high"
               ELSE IF agreement_percentage >= 75 THEN "high"
               ELSE IF agreement_percentage >= 60 THEN "medium"
               ELSE IF agreement_percentage >= 40 THEN "low"
               ELSE "very_low"
      kept == SelectSeq(successful_results,
                        LAMBDA r : r.model \notin Range(outlier_models))
  IN  IF n < 1
        THEN [score_variance |-> [num |-> 0, den |-> 1],
              score_std_dev |-> [squared |-> [num |-> 0, den |-> 1]],
              agreement_percentage |-> 0,
              reliability_level |-> AnalysisReliability("very_low"),
              outlier_models |-> << >>,
              consensus_score |-> Null]
        ELSE [score_variance |-> [num |-> Q, den |-> n * n * (n - 1)],
              score_std_dev |-> [squared |-> [num |-> Q,
                                              den |-> n * n * (n - 1)]],
              agreement_percentage |-> agreement_percentage,
              reliability_level |-> AnalysisReliability(level),
              outlier_models |-> outlier_models,
              consensus_score |->
                IF kept # << >>
                  THEN median([i \in 1..Len(kept) |-> kept[i].score])
                  ELSE S \div n]

\* metrics whose reliability cut points are exclusive
calculate_consensus_metrics_exclusive(model_results) ==
  LET successful_results ==
        SelectSeq(model_results, LAMBDA r : r.success /\ r.score # Null)
      n == Len(successful_results)
      scores == [i \in 1..n |-> successful_results[i].score]
      S == SeqSum(scores)
      Q == SeqSum([i \in 1..n |-> (n * scores[i] - S) * (n * scores[i] - S)])
      outliers ==
        SelectSeq(successful_results,
                  LAMBDA r : /\ Q > 0
                             /\ (n * r.score - S) * (n * r.score - S) * (n - 1)
                                  > OutlierThreshold * OutlierThreshold * Q)
      outlier_models == [i \in 1..Len(outliers) |-> outliers[i].model]
      \* (1 - std_dev / mean) * 100 >= p for a whole p:
      \* std_dev / mean <= (100 - p) / 100
      agreement_at_least(p) ==
        Q <= MulDiv(S * S, (100 - p) * (100 - p) * (n - 1), 10000)
      \* agreement_percentage, by its integer part
      agreement_percentage ==
        IF S > 0
          THEN LET ps == { p \in 0..100 : agreement_at_least(p) }
               IN  IF ps = {} THEN 0 ELSE CHOOSE p \in ps : \A q \in ps : q <= p
          ELSE 0
      level == IF agreement_percentage > 90 THEN "very_high"
               ELSE IF agreement_percentage > 75 THEN "high"
               ELSE IF agreement_percentage > 60 THEN "medium"
               ELSE IF agreement_percentage > 40 THEN "low"
               ELSE "very_low"
      kept == SelectSeq(successful_results,
                        LAMBDA r : r.model \notin Range(outlier_models))
  IN  IF n < MinModelsForConsensus
        THEN [score_variance |-> [num |-> 0, den |-> 1],
              score_std_dev |-> [squared |-> [num |-> 0, den |-> 1]],
              agreement_percentage |-> 0,
              reliability_level |-> AnalysisReliability("very_low"),
              outlier_models |-> << >>,
              consensus_score |-> Null]
        ELSE [score_variance |-> [num |-> Q, den |-> n * n * (n - 1)],
              score_std_dev |-> [squared |-> [num |-> Q,
                                              den |-> n * n * (n - 1)]],
              agreement_percentage |-> agreement_percentage,
              reliability_level |-> AnalysisReliability(level),
              outlier_models |-> outlier_models,
              consensus_score |->
                IF kept # << >>
                  THEN median([i \in 1..Len(kept) |-> kept[i].score])
                  ELSE S \div n]

\* metrics that look for outliers among all the results, failed ones included
calculate_consensus_metrics_all_results(model_results) ==
  LET successful_results ==
        SelectSeq(model_results, LAMBDA r : r.success /\ r.score # Null)
      n == Len(successful_results)
      scores == [i \in 1..n |-> successful_results[i].score]
      S == SeqSum(scores)
      Q == SeqSum([i \in 1..n |-> (n * scores[i] - S) * (n * scores[i] - S)])
      outliers ==
        SelectSeq(model_results,
                  LAMBDA r : /\ Q > 0
                             /\ (n * r.score - S) * (n * r.score - S) * (n - 1)
                                  > OutlierThreshold * OutlierThreshold * Q)
      outlier_models == [i \in 1..Len(outliers) |-> outliers[i].model]
      \* (1 - std_dev / mean) * 100 >= p for a whole p:
      \* std_dev / mean <= (100 - p) / 100
      agreement_at_least(p) ==
        Q <= MulDiv(S * S, (100 - p) * (100 - p) * (n - 1), 10000)
      \* agreement_percentage, by its integer part
      agreement_percentage ==
        IF S > 0
          THEN LET ps == { p \in 0..100 : agreement_at_least(p) }
               IN  IF ps = {} THEN 0 ELSE CHOOSE p \in ps : \A q \in ps : q <= p
          ELSE 0
      level == IF agreement_percentage >= 90 THEN "very_high"
               ELSE IF agreement_percentage >= 75 THEN "high"
               ELSE IF agreement_percentage >= 60 THEN "medium"
               ELSE IF agreement_percentage >= 40 THEN "low"
               ELSE "very_low"
      kept == SelectSeq(successful_results,
                        LAMBDA r : r.model \notin Range(outlier_models))
  IN  IF n < MinModelsForConsensus
        THEN [score_variance |-> [num |-> 0, den |-> 1],
              score_std_dev |-> [squared |-> [num |-> 0, den |-> 1]],
              agreement_percentage |-> 0,
              reliability_level |-> AnalysisReliability("very_low"),
              outlier_models |-> << >>,
              consensus_score |-> Null]
        ELSE [score_variance |-> [num |-> Q, den |-> n * n * (n - 1)],
              score_std_dev |-> [squared |-> [num |-> Q,
                                              den |-> n * n * (n - 1)]],
              agreement_percentage |-> agreement_percentage,
              reliability_level |-> AnalysisReliability(level),
              outlier_models |-> outlier_models,
              consensus_score |->
                IF kept # << >>
                  THEN median([i \in 1..Len(kept) |-> kept[i].score])
                  ELSE S \div n]

\* a _calculate_consensus_metrics that flags every score more than one
\* standard deviation away from the mean
calculate_consensus_metrics_one_deviation(model_results) ==
  LET successful_results ==
        SelectSeq(model_results, LAMBDA r : r.success /\ r.score # Null)
      n == Len(successful_results)
      scores == [i \in 1..n |-> successful_results[i].score]
      S == SeqSum(scores)
      Q == SeqSum([i \in 1..n |-> (n * scores[i] - S) * (n * scores[i] - S)])
      outliers ==
        SelectSeq(successful_results,
                  LAMBDA r : /\ Q > 0
                             /\ (n * r.score - S) * (n * r.score - S) * (n - 1)
                                  > Q)
      outlier_models == [i \in 1..Len(outliers) |-> outliers[i].model]
      \* (1 - std_dev / mean) * 100 >= p for a whole p:
      \* std_dev / mean <= (100 - p) / 100
      agreement_at_least(p) ==
        Q <= MulDiv(S * S, (100 - p) * (100 - p) * (n - 1), 10000)
      \* agreement_percentage, by its integer part
      agreement_percentage ==
        IF S > 0
          THEN LET ps == { p \in 0..100 : agreement_at_least(p) }
               IN  IF ps = {} THEN 0 ELSE CHOOSE p \in ps : \A q \in ps : q <= p
          ELSE 0
      level == IF agreement_percentage >= 90 THEN "very_high"
               ELSE IF agreement_percentage >= 75 THEN "high"
               ELSE IF agreement_percentage >= 60 THEN "medium"
               ELSE IF agreement_percentage >= 40 THEN "low"
               ELSE "very_low"
      kept == SelectSeq(successful_results,
                        LAMBDA r : r.model \notin Range(outlier_models))
  IN  IF n < MinModelsForConsensus
        THEN [score_variance |-> [num |-> 0, den |-> 1],
              score_std_dev |-> [squared |-> [num |-> 0, den |-> 1]],
              agreement_percentage |-> 0,
              reliability_level |-> AnalysisReliability("very_low"),
              outlier_models |-> << >>,
              consensus_score |-> Null]
        ELSE [score_variance |-> [num |-> Q, den |-> n * n * (n - 1)],
              score_std_dev |-> [squared |-> [num |-> Q,
                                              den |-> n * n * (n - 1)]],
              agreement_percentage |-> agreement_percentage,
              reliability_level |-> AnalysisReliability(level),
              outlier_models |-> outlier_models,
              consensus_score |->
                IF kept # << >>
                  THEN median([i \in 1..Len(kept) |-> kept[i].score])
                  ELSE S \div n]

\* _calculate_consensus_metrics.  With n scores of sum S, and Q the sum of
\* (n*x - S)^2, the variance is Q / (n*n*(n-1)); the comparisons on the
\* standard deviation are taken on its square.
calculate_consensus_metrics(model_results) ==
  LET successful_results ==
        SelectSeq(model_results, LAMBDA r : r.success /\ r.score # Null)
      n == Len(successful_results)
      scores == [i \in 1..n |-> successful_results[i].score]
      S == SeqSum(scores)
      Q == SeqSum([i \in 1..n |-> (n * scores[i] - S) * (n * scores[i] - S)])
      outliers ==
        SelectSeq(successful_results,
                  LAMBDA r : /\ Q > 0
                             /\ (n * r.score - S) * (n * r.score - S) * (n - 1)
                                  > OutlierThreshold * OutlierThreshold * Q)
      outlier_models == [i \in 1..Len(outliers) |-> outliers[i].model]
      \* (1 - std_dev / mean) * 100 >= p for a whole p:
      \* std_dev / mean <= (100 - p) / 100
      agreement_at_least(p) ==
        Q <= MulDiv(S * S, (100 - p) * (100 - p) * (n - 1), 10000)
      \* agreement_percentage, by its integer part
      agreement_percentage ==
        IF S > 0
          THEN LET ps == { p \in 0..100 : agreement_at_least(p) }
               IN  IF ps = {} THEN 0 ELSE CHOOSE p \in ps : \A q \in ps : q <= p
          ELSE 0
      level == IF agreement_percentage >= 90 THEN "very_high"
               ELSE IF agreement_percentage >= 75 THEN "high"
               ELSE IF agreement_percentage >= 60 THEN "medium"
               ELSE IF agreement_percentage >= 40 THEN "low"
               ELSE "very_low"
      kept == SelectSeq(successful_results,
                        LAMBDA r : r.model \notin Range(outlier_models))
  IN  IF n < MinModelsForConsensus
        THEN [score_variance |-> [num |-> 0, den |-> 1],
              score_std_dev |-> [squared |-> [num |-> 0, den |-> 1]],
              agreement_percentage |-> 0,
              reliability_level |-> AnalysisReliability("very_low"),
              outlier_models |-> << >>,
              consensus_score |-> Null]
        ELSE [score_variance |-> [num |-> Q, den |-> n * n * (n - 1)],
              score_std_dev |-> [squared |-> [num |-> Q,
                                              den |-> n * n * (n - 1)]],
              agreement_percentage |-> agreement_percentage,
              reliability_level |-> AnalysisReliability(level),
              outlier_models |-> outlier_models,
              consensus_score |->
                IF kept # << >>
                  THEN median([i \in 1..Len(kept) |-> kept[i].score])
                  ELSE S \div n]

\* _generate_consensus_feedback: the text, by the values written into it
generate_consensus_feedback(model_results, consensus_metrics) ==
  LET successful_results ==
        SelectSeq(model_results,
                  LAMBDA r : r.success /\ r.feedback # NoFeedback)
      scored == SelectSeq(successful_results,
                          LAMBDA r : r.score # Null /\ r.score # 0)
  IN  IF successful_results = << >>
        THEN [by |-> "unavailable", nota |-> Null]
        ELSE [by |-> "consensus",
              nota |-> consensus_metrics.consensus_score,
              reliability |-> consensus_metrics.reliability_level.value,
              analysed |-> Len(successful_results),
              attempted |-> Len(model_results),
              outliers |-> consensus_metrics.outlier_models,
              scores |-> [i \in 1..Len(scored) |->
                            << scored[i].model, scored[i].score >>]]

\* the DeepAnalysisResult that analyze_deep builds after the fan-out
DeepAnalysisResult(content, theme, atype, model_results) ==
  LET consensus_metrics == calculate_consensus_metrics(model_results)
  IN  [content_hash |-> content_hash(content, theme, atype),
       theme |-> theme,
       analysis_type |-> atype,
       model_results |-> model_results,
       consensus_metrics |-> consensus_metrics,
       final_score |-> consensus_metrics.consensus_score,
       final_feedback |->
         generate_consensus_feedback(model_results, consensus_metrics),
       cache_key |-> generate_deep_cache_key(content, theme, atype)]

\* _serialize_deep_result: the dict handed to the cache
serialize_deep_result(result) ==
  [content_hash |-> result.content_hash,
   theme |-> result.theme,
   analysis_type |-> result.analysis_type,
   model_results |->
     [i \in DOMAIN result.model_results |->
        [model |-> result.model_results[i].model,
         feedback |-> result.model_results[i].feedback,
         score |-> result.model_results[i].score,
         error |-> result.model_results[i].error,
         success |-> result.model_results[i].success]],
   consensus_metrics |->
     [score_variance |-> result.consensus_metrics.score_variance,
      score_std_dev |-> result.consensus_metrics.score_std_dev,
      agreement_percentage |-> result.consensus_metrics.agreement_percentage,
      reliability_level |-> result.consensus_metrics.reliability_level.value,
      outlier_models |-> result.consensus_metrics.outlier_models,
      consensus_score |-> result.consensus_metrics.consensus_score],
   final_score |-> result.final_score,
   final_feedback |-> result.final_feedback,
   cache_key |-> result.cache_key]

\* a deserializer that takes the final score from the consensus metrics
\* and rebuilds the feedback from the model results
deserialize_deep_result_recomputed(data) ==
  [content_hash |-> data.content_hash,
   theme |-> data.theme,
   analysis_type |-> data.analysis_type,
   model_results |->
     [i \in DOMAIN data.model_results |->
        [model |-> data.model_results[i].model,
         feedback |-> data.model_results[i].feedback,
         score |-> data.model_results[i].score,
         error |-> data.model_results[i].error,
         success |-> data.model_results[i].success]],
   consensus_metrics |->
     [score_variance |-> data.consensus_metrics.score_variance,
      score_std_dev |-> data.consensus_metrics.score_std_dev,
      agreement_percentage |-> data.consensus_metrics.agreement_percentage,
      reliability_level |->
        AnalysisReliability(data.consensus_metrics.reliability_level),
      outlier_models |-> data.consensus_metrics.outlier_models,
      consensus_score |-> data.consensus_metrics.consensus_score],
   final_score |-> data.consensus_metrics.consensus_score,
   final_feedback |-> [by |-> "consensus", nota |-> data.final_score],
   cache_key |-> data.cache_key]

\* _deserialize_deep_result: the DeepAnalysisResult read back from the dict
deserialize_deep_result(data) ==
  [content_hash |-> data.content_hash,
   theme |-> data.theme,
   analysis_type |-> data.analysis_type,
   model_results |->
     [i \in DOMAIN data.model_results |->
        [model |-> data.model_results[i].model,
         feedback |-> data.model_results[i].feedback,
         score |-> data.model_results[i].score,
         error |-> data.model_results[i].error,
         success |-> data.model_results[i].success]],
   consensus_metrics |->
     [score_variance |-> data.consensus_metrics.score_variance,
      score_std_dev |-> data.consensus_metrics.score_std_dev,
      agreement_percentage |-> data.consensus_metrics.agreement_percentage,
      reliability_level |->
        AnalysisReliability(data.consensus_metrics.reliability_level),
      outlier_models |-> data.consensus_metrics.outlier_models,
      consensus_score |-> data.consensus_metrics.consensus_score],
   final_score |-> data.final_score,
   final_feedback |-> data.final_feedback,
   cache_key |-> data.cache_key]

\* AnalysisReliability(value) raises ValueError on anything but a member's
\* value; _check_deep_cache then answers None
deserializable(data) ==
  data.consensus_metrics.reliability_level \in ReliabilityValues

\* None where a Phase1ModelResult is expected
NoModelResult == [model |-> ""]

\* Phase1ModelResult of the task at position i, None when there is none
Phase1ModelResult(model_results, i) ==
  IF i \in DOMAIN model_results
    THEN [model |-> model_results[i].model,
          feedback |-> model_results[i].feedback,
          score |-> model_results[i].score,
          error |-> model_results[i].error,
          success |-> model_results[i].success,
          raw_output |-> IF model_results[i].success
                           THEN model_results[i].feedback ELSE NoFeedback]
    ELSE NoModelResult

\* the EnhancedDeepAnalysisResult that analyze_enhanced_deep builds
EnhancedDeepAnalysisResult(content, theme, atype, o) ==
  [content_hash |-> generate_enhanced_cache_key(content, theme, atype).hash,
   theme |-> theme,
   analysis_type |-> atype,
   phase1_results |->
     [kimi_result |-> Phase1ModelResult(o.model_results, 1),
      qwen_result |-> Phase1ModelResult(o.model_results, 2),
      deepseek_result |-> Phase1ModelResult(o.model_results, 3),
      successful_models |-> o.successful_models],
   phase2_result |->
     [consolidated_feedback |-> o.phase2.feedback,
      final_score |-> o.phase2.final_score,
      reliability_level |-> o.phase2.reliability_level,
      error |-> o.phase2.error,
      success |-> o.phase2.success],
   cache_key |-> generate_enhanced_cache_key(content, theme, atype)]

\* _serialize_model_result / _deserialize_model_result: None stays None
serialize_model_result(model_result) ==
  IF model_result = NoModelResult THEN NoModelResult
  ELSE [model |-> model_result.model,
        feedback |-> model_result.feedback,
        score |-> model_result.score,
        error |-> model_result.error,
        success |-> model_result.success,
        raw_output |-> model_result.raw_output]

deserialize_model_result(data) ==
  IF data = NoModelResult THEN NoModelResult
  ELSE [model |-> data.model,
        feedback |-> data.feedback,
        score |-> data.score,
        error |-> data.error,
        success |-> data.success,
        raw_output |-> data.raw_output]

\* _serialize_enhanced_result
serialize_enhanced_result(result) ==
  [content_hash |-> result.content_hash,
   theme |-> result.theme,
   analysis_type |-> result.analysis_type,
   phase1_results |->
     [kimi_result |-> serialize_model_result(result.phase1_results.kimi_result),
      qwen_result |-> serialize_model_result(result.phase1_results.qwen_result),
      deepseek_result |->
        serialize_model_result(result.phase1_results.deepseek_result),
      successful_models |-> result.phase1_results.successful_models],
   phase2_result |->
     [consolidated_feedback |-> result.phase2_result.consolidated_feedback,
      final_score |-> result.phase2_result.final_score,
      reliability_level |-> result.phase2_result.reliability_level,
      error |-> result.phase2_result.error,
      success |-> result.phase2_result.success],
   cache_key |-> result.cache_key]

\* _deserialize_enhanced_result
deserialize_enhanced_result(data) ==
  [content_hash |-> data.content_hash,
   theme |-> data.theme,
   analysis_type |-> data.analysis_type,
   phase1_results |->
     [kimi_result |-> deserialize_model_result(data.phase1_results.kimi_result),
      qwen_result |-> deserialize_model_result(data.phase1_results.qwen_result),
      deepseek_result |->
        deserialize_model_result(data.phase1_results.deepseek_result),
      successful_models |-> data.phase1_results.successful_models],
   phase2_result |->
     [consolidated_feedback |-> data.phase2_result.consolidated_feedback,
      final_score |-> data.phase2_result.final_score,
      reliability_level |-> data.phase2_result.reliability_level,
      error |-> data.phase2_result.error,
      success |-> data.phase2_result.success],
   cache_key |-> data.cache_key]

\* a validation that goes straight on to the rate-limit gate
Validate_skipping_cache ==
  /\ req.pc = "validating"
  /\ IF req.content = 0 \/ req.theme = << >>
       THEN req' = [req EXCEPT !.pc = "failed", !.err = "invalid_input"]
       ELSE req' = [req EXCEPT !.pc = "rate_limit_check"]
  /\ UNCHANGED << svc, cache, lim, calls, launched, out, prev, lcl >>

\* the first steps of both orchestrators
Validate ==
  /\ req.pc = "validating"
  /\ IF req.content = 0 \/ req.theme = << >>
       THEN req' = [req EXCEPT !.pc = "failed", !.err = "invalid_input"]
       ELSE req' = [req EXCEPT !.pc = "cache_check"]
  /\ UNCHANGED << svc, cache, lim, calls, launched, out, prev, lcl >>

OrchestratorKey ==
  IF req.kind = "deep"
    THEN generate_deep_cache_key(Essay(req.content), req.theme, req.atype)
    ELSE generate_enhanced_cache_key(Essay(req.content), req.theme, req.atype)

\* _check_deep_cache / _check_enhanced_cache
CacheCheck ==
  /\ req.pc = "cache_check"
  /\ IF cache_hit(OrchestratorKey)
        /\ (req.kind = "deep" => deserializable(cache[OrchestratorKey]))
       THEN req' = [req EXCEPT
                      !.pc = "done", !.from_cache = TRUE,
                      !.result =
                        IF req.kind = "deep"
                          THEN deserialize_deep_result(cache[OrchestratorKey])
                          ELSE deserialize_enhanced_result(cache[OrchestratorKey])]
       ELSE req' = [req EXCEPT !.pc = "rate_limit_check"]
  /\ UNCHANGED << svc, cache, lim, calls, launched, out, prev, lcl >>

\* _cache_deep_result / _cache_enhanced_result, then return
\* a cache write that stores the result before its model results are in
CacheWrite_partial ==
  /\ req.pc = "cache_write"
  /\ cache' = cache_set(req.result.cache_key,
                        IF req.kind = "deep"
                          THEN [serialize_deep_result(req.result)
                                  EXCEPT !.model_results = << >>]
                          ELSE serialize_enhanced_result(req.result))
  /\ req' = [req EXCEPT !.pc = "done"]
  /\ UNCHANGED << svc, lim, calls, launched, out, prev, lcl >>

CacheWrite ==
  /\ req.pc = "cache_write"
  /\ cache' = cache_set(req.result.cache_key,
                        IF req.kind = "deep"
                          THEN serialize_deep_result(req.result)
                          ELSE serialize_enhanced_result(req.result))
  /\ req' = [req EXCEPT !.pc = "done"]
  /\ UNCHANGED << svc, lim, calls, launched, out, prev, lcl >>

Instants == { 30 * i : i \in 0..MaxNow }

-----------------------------------------------------------------------------
(* EnhancedDeepAnalysisService *)

ModelNameLen(m) ==
  CASE m = "kimi_k2"     -> 7
    [] m = "qwen3_235b"  -> 10
    [] m = "deepseek_r1" -> 11
    [] OTHER             -> 10

\* Phase1Results.get_raw_outputs_for_synthesis
get_raw_outputs_for_synthesis(results) ==
  { [model |-> results[i].model, raw_output |-> results[i].feedback] :
      i \in { j \in DOMAIN results : results[j].success } }

\* _create_synthesis_prompt: the template filled with the essay, the theme,
\* the exam type (twice) and one headed section per Phase-1 output
create_synthesis_prompt(content, theme, phase1_outputs) ==
  [len |-> SynthesisTemplateLen + content + ThemeLen + 2 * ExamTypeLen
           + SeqSum([i \in 1..Cardinality(phase1_outputs) |->
                      26 + ModelNameLen(SetToSeq(phase1_outputs)[i].model)
                         + FeedbackLen]),
   essay |-> content,
   outputs |-> phase1_outputs,
   text |-> << "synthesis_template" >> \o EssayText(content) \o theme
            \o << ToString(phase1_outputs) >>]

\* _extract_synthesis_score: "Nota Final: X/T" read case-insensitively; X is
\* brought to the scale of 1000 when T is not 1000, and the division by a T
\* of 0 raises inside the try, which gives None
extract_synthesis_score(fb) ==
  IF fb.nota = Null THEN Null
  ELSE IF fb.total = 1000 THEN fb.nota
  ELSE IF fb.total = 0 THEN Null
  ELSE (fb.nota * 1000) \div fb.total

\* success_rate = successful_models / 3.0 against the cut points 1.0, 0.67, 0.33
calculate_reliability_level(successful_models) ==
  IF successful_models * 100 >= 100 * 3 THEN "very_high"
  ELSE IF successful_models * 100 >= 67 * 3 THEN "high"
  ELSE IF successful_models * 100 >= 33 * 3 THEN "medium"
  ELSE "very_low"

AnalyzeEnhanced(content, theme, atype, user) ==
  /\ req.pc = "idle"
  /\ req' = [IdleReq EXCEPT !.kind = "enhanced", !.pc = "validating",
                            !.content = content, !.theme = theme,
                            !.atype = atype, !.user = user]
  /\ UNCHANGED << svc, cache, lim, calls, launched, out, prev, lcl >>

\* rate-limit gate, then _run_phase1_analysis creates the three tasks
RateLimitEnhanced ==
  /\ req.pc = "rate_limit_check"
  /\ req.kind = "enhanced"
  /\ \E t \in { i \in Instants : i >= now } :
       LET r == is_allowed("enhanced_deep_" \o req.user, t)
       IN  IF req.user # "" /\ ~r.allowed
             THEN /\ req' = [req EXCEPT !.pc = "failed", !.err = "rate_limit",
                                        !.wait_time = r.wait_time]
                  /\ now' = t
                  /\ requests' = r.requests
                  /\ UNCHANGED << calls, launched >>
             ELSE /\ req' = [req EXCEPT !.pc = "fanout_running"]
                  /\ IF req.user # ""
                       THEN now' = t /\ requests' = r.requests
                       ELSE t = now /\ UNCHANGED lim
                  /\ launched' = Phase1Models
                  /\ calls' = [c \in CallIds |->
                                 IF c <= Len(Phase1Models)
                                   THEN correct_essay(Essay(req.content), req.theme,
                                                      Phase1Models[c], req.atype)
                                   ELSE IdleCall]
  /\ UNCHANGED << svc, cache, out, prev, lcl >>

\* the gather of _run_phase1_analysis returns; _run_phase2_synthesis begins
JoinPhase1 ==
  /\ req.pc = "fanout_running"
  /\ req.kind = "enhanced"
  /\ gather_done(1..Len(launched))
  /\ LET results == [i \in 1..Len(launched) |->
                       analyze_with_model(launched[i], calls[i])]
         successful_models ==
           Cardinality({ i \in DOMAIN results : results[i].success })
         o == [out EXCEPT !.model_results = results,
                          !.successful_models = successful_models]
     IN  IF successful_models < MinSuccessfulModels
           THEN /\ out' = [o EXCEPT !.phase2 =
                             [NoPhase2 EXCEPT !.reliability_level = "very_low",
                                              !.error = "insufficient"]]
                /\ req' = [req EXCEPT
                             !.pc = "cache_write",
                             !.result = EnhancedDeepAnalysisResult(
                                          Essay(req.content), req.theme,
                                          req.atype, out')]
                /\ UNCHANGED calls
           ELSE /\ out' = [o EXCEPT !.phase2.started = TRUE]
                /\ req' = [req EXCEPT !.pc = "phase2_synthesis"]
                /\ calls' = [calls EXCEPT ![SynthCall] =
                     correct_essay(create_synthesis_prompt(req.content, req.theme,
                                get_raw_outputs_for_synthesis(results)),
                             << "synthesis:" >> \o req.theme, Phase2Model,
                             "synthesis")]
  /\ UNCHANGED << svc, cache, lim, launched, prev, lcl >>

\* a Phase2Result whose label is read off the agreement of the Phase-1 scores
phase2_result_by_scores(cl, successful_models) ==
  LET agree == \A i, j \in DOMAIN out.model_results :
                 out.model_results[i].score = out.model_results[j].score
      label == IF agree THEN "high" ELSE "low"
  IN  IF cl.st = "returned"
        THEN [started |-> TRUE, success |-> TRUE,
              final_score |-> extract_synthesis_score(cl.result.feedback),
              reliability_level |-> label,
              feedback |-> cl.result.feedback, error |-> ""]
      ELSE [started |-> TRUE, success |-> FALSE, final_score |-> Null,
            reliability_level |-> label, feedback |-> NoFeedback,
            error |-> IF cl.st = "cancelled" THEN "timed out" ELSE "failed"]

\* a Phase2Result that keeps the Phase-1 label when the synthesis call fails
phase2_result_keep_label(cl, successful_models) ==
  IF cl.st = "returned"
    THEN [started |-> TRUE, success |-> TRUE,
          final_score |-> extract_synthesis_score(cl.result.feedback),
          reliability_level |-> calculate_reliability_level(successful_models),
          feedback |-> cl.result.feedback, error |-> ""]
  ELSE [started |-> TRUE, success |-> FALSE, final_score |-> Null,
        reliability_level |-> calculate_reliability_level(successful_models),
        feedback |-> NoFeedback,
        error |-> IF cl.st = "cancelled" THEN "timed out" ELSE "failed"]

\* the Phase2Result _run_phase2_synthesis builds from the synthesis call:
\* returned, wait_for timed out, or any other exception
phase2_result(cl, successful_models) ==
  IF cl.st = "returned"
    THEN [started |-> TRUE, success |-> TRUE,
          final_score |-> extract_synthesis_score(cl.result.feedback),
          reliability_level |-> calculate_reliability_level(successful_models),
          feedback |-> cl.result.feedback, error |-> ""]
  ELSE IF cl.st = "cancelled"
    THEN [started |-> TRUE, success |-> FALSE, final_score |-> Null,
          reliability_level |-> "low", feedback |-> NoFeedback,
          error |-> "timed out"]
  ELSE [started |-> TRUE, success |-> FALSE, final_score |-> Null,
        reliability_level |-> "very_low", feedback |-> NoFeedback,
        error |-> "failed"]

\* the synthesis call has ended
FinishPhase2 ==
  /\ req.pc = "phase2_synthesis"
  /\ Finished(SynthCall)
  /\ out' = [out EXCEPT !.phase2 =
                          phase2_result(calls[SynthCall], out.successful_models)]
  /\ req' = [req EXCEPT
               !.pc = "cache_write",
               !.result = EnhancedDeepAnalysisResult(Essay(req.content),
                                                     req.theme, req.atype, out')]
  /\ UNCHANGED << svc, cache, lim, calls, launched, prev, lcl >>

-----------------------------------------------------------------------------
(* DeepAnalysisService *)

AnalyzeDeep(content, theme, atype, user) ==
  /\ req.pc = "idle"
  /\ req' = [IdleReq EXCEPT !.kind = "deep", !.pc = "validating",
                            !.content = content, !.theme = theme,
                            !.atype = atype, !.user = user]
  /\ UNCHANGED << svc, cache, lim, calls, launched, out, prev, lcl >>

\* the models _run_multiple_models launches a task for
models_to_use ==
  LET available_models == SelectSeq(ModelKeys, LAMBDA m : available[m])
  IN  IF Len(available_models) > MaxConcurrentModels
        THEN SubSeq(available_models, 1, MaxConcurrentModels)
        ELSE available_models

\* rate-limit gate, then _run_multiple_models creates its tasks
RateLimitDeep ==
  /\ req.pc = "rate_limit_check"
  /\ req.kind = "deep"
  /\ \E t \in { i \in Instants : i >= now } :
       LET r == is_allowed("deep_" \o req.user, t)
       IN  IF req.user # "" /\ ~r.allowed
             THEN /\ req' = [req EXCEPT !.pc = "failed", !.err = "rate_limit",
                                        !.wait_time = r.wait_time]
                  /\ now' = t
                  /\ requests' = r.requests
                  /\ UNCHANGED << calls, launched >>
             ELSE /\ IF req.user # ""
                       THEN now' = t /\ requests' = r.requests
                       ELSE t = now /\ UNCHANGED lim
                  /\ IF models_to_use = << >>
                       THEN /\ req' = [req EXCEPT !.pc = "failed",
                                                  !.err = "no_models"]
                            /\ UNCHANGED << calls, launched >>
                       ELSE /\ req' = [req EXCEPT !.pc = "fanout_running"]
                            /\ launched' = models_to_use
                            /\ calls' = [c \in CallIds |->
                                 IF c <= Len(models_to_use)
                                   THEN correct_essay(Essay(req.content), req.theme,
                                                      models_to_use[c], req.atype)
                                   ELSE IdleCall]
  /\ UNCHANGED << svc, cache, out, prev, lcl >>

\* a fan-out counted as failed as soon as no task succeeded
total_failure_no_success(results) ==
  \A i \in DOMAIN results : ~results[i].success

\* "if not model_results": nothing at all came back from the fan-out
total_failure(results) == results = << >>

\* the gather of _run_multiple_models returns; analyze_deep goes on
JoinDeep ==
  /\ req.pc = "fanout_running"
  /\ req.kind = "deep"
  /\ gather_done(1..Len(launched))
  /\ LET results == [i \in 1..Len(launched) |->
                       analyze_with_model(launched[i], calls[i])]
     IN  IF total_failure(results)
           THEN /\ req' = [req EXCEPT !.pc = "failed", !.err = "no_results"]
                /\ UNCHANGED out
           ELSE /\ out' = [out EXCEPT !.model_results = results,
                                      !.handed = TRUE]
                /\ req' = [req EXCEPT
                             !.pc = "cache_write",
                             !.result = DeepAnalysisResult(Essay(req.content),
                                          req.theme, req.atype, results)]
  /\ UNCHANGED << svc, cache, lim, calls, launched, prev, lcl >>

-----------------------------------------------------------------------------
(* AIService.correct_essay called for an identified user *)

\* a correct_essay that tells a denied caller to wait for a whole window
CorrectEssay_full_window(content, theme, model_key, atype, user) ==
  /\ req.pc = "idle"
  /\ \E t \in { i \in Instants : i >= now } :
       LET cl == correct_essay(Essay(content), theme, model_key, atype)
           r  == is_allowed(user, t)
           rq == [IdleReq EXCEPT !.kind = "correct", !.content = content,
                                 !.theme = theme, !.atype = atype,
                                 !.user = user]
       IN  IF cl.st = "raised"
             THEN /\ t = now
                  /\ req' = [rq EXCEPT !.pc = "failed", !.err = cl.err]
                  /\ UNCHANGED << lim, calls, launched >>
           ELSE IF user # "" /\ ~r.allowed
             THEN /\ req' = [rq EXCEPT !.pc = "failed", !.err = "rate_limit",
                                       !.wait_time = config.window_size]
                  /\ now' = t
                  /\ requests' = r.requests
                  /\ UNCHANGED << calls, launched >>
           ELSE /\ IF user # ""
                     THEN now' = t /\ requests' = r.requests
                     ELSE t = now /\ UNCHANGED lim
                /\ req' = [rq EXCEPT !.pc = "correct_running"]
                /\ calls' = [calls EXCEPT ![1] = [cl EXCEPT !.user = user]]
                /\ launched' = << cl.primary >>
  /\ UNCHANGED << svc, cache, out, prev, lcl >>

\* a correct_essay that asks the limiter before it validates its input
CorrectEssay_limiter_first(content, theme, model_key, atype, user) ==
  /\ req.pc = "idle"
  /\ \E t \in { i \in Instants : i >= now } :
       LET cl == correct_essay(Essay(content), theme, model_key, atype)
           r  == is_allowed(user, t)
           rq == [IdleReq EXCEPT !.kind = "correct", !.content = content,
                                 !.theme = theme, !.atype = atype,
                                 !.user = user]
       IN  IF cl.st = "raised"
             THEN /\ req' = [rq EXCEPT !.pc = "failed", !.err = cl.err]
                  /\ now' = t
                  /\ requests' = r.requests
                  /\ UNCHANGED << calls, launched >>
           ELSE IF user # "" /\ ~r.allowed
             THEN /\ req' = [rq EXCEPT !.pc = "failed", !.err = "rate_limit",
                                       !.wait_time = r.wait_time]
                  /\ now' = t
                  /\ requests' = r.requests
                  /\ UNCHANGED << calls, launched >>
           ELSE /\ IF user # ""
                     THEN now' = t /\ requests' = r.requests
                     ELSE t = now /\ UNCHANGED lim
                /\ req' = [rq EXCEPT !.pc = "correct_running"]
                /\ calls' = [calls EXCEPT ![1] = [cl EXCEPT !.user = user]]
                /\ launched' = << cl.primary >>
  /\ UNCHANGED << svc, cache, out, prev, lcl >>

\* correct_essay up to its first suspension point: validation, then the rate
\* limiter asked at instant t for the caller's own key, then the cache gate
CorrectEssay(content, theme, model_key, atype, user) ==
  /\ req.pc = "idle"
  /\ \E t \in { i \in Instants : i >= now } :
       LET cl == correct_essay(Essay(content), theme, model_key, atype)
           r  == is_allowed(user, t)
           rq == [IdleReq EXCEPT !.kind = "correct", !.content = content,
                                 !.theme = theme, !.atype = atype,
                                 !.user = user]
       IN  IF cl.st = "raised"
             THEN /\ t = now
                  /\ req' = [rq EXCEPT !.pc = "failed", !.err = cl.err]
                  /\ UNCHANGED << lim, calls, launched >>
           ELSE IF user # "" /\ ~r.allowed
             THEN /\ req' = [rq EXCEPT !.pc = "failed", !.err = "rate_limit",
                                       !.wait_time = r.wait_time]
                  /\ now' = t
                  /\ requests' = r.requests
                  /\ UNCHANGED << calls, launched >>
           ELSE /\ IF user # ""
                     THEN now' = t /\ requests' = r.requests
                     ELSE t = now /\ UNCHANGED lim
                /\ req' = [rq EXCEPT !.pc = "correct_running"]
                /\ calls' = [calls EXCEPT ![1] = [cl EXCEPT !.user = user]]
                /\ launched' = << cl.primary >>
  /\ UNCHANGED << svc, cache, out, prev, lcl >>

\* correct_essay returns its result dict or raises to its caller
CorrectReturn ==
  /\ req.kind = "correct"
  /\ req.pc = "correct_running"
  /\ Finished(1)
  /\ req' = IF calls[1].st = "returned"
              THEN [req EXCEPT !.pc = "done", !.result = calls[1].result]
              ELSE [req EXCEPT !.pc = "failed", !.err = calls[1].err]
  /\ UNCHANGED << svc, cache, lim, calls, launched, out, prev, lcl >>

\* the endpoint of a model answers again
ApiRecover(m) ==
  /\ m \in apiDown
  /\ apiDown' = apiDown \ {m}
  /\ UNCHANGED << config, available, timers, resets, cacheUp, cache, lim, req,
                  calls, launched, out, prev, lcl >>

-----------------------------------------------------------------------------
(* DeepAnalysisService._calculate_consensus_metrics on its own *)

\* _calculate_consensus_metrics is called on the result list at hand
ComputeMetrics ==
  /\ req.pc = "idle"
  /\ req' = [req EXCEPT !.pc = "done",
                        !.result = calculate_consensus_metrics(out.model_results)]
  /\ UNCHANGED << svc, cache, lim, calls, launched, out, prev, lcl >>

\* the reorderings of a list of n results that are tried: the exchange of two
\* neighbours and the reversal
Reorderings(n) ==
  { [i \in 1..n |-> IF i = k THEN k + 1 ELSE IF i = k + 1 THEN k ELSE i] :
      k \in 1..(n - 1) }
  \cup { [i \in 1..n |-> n + 1 - i] : k \in 1..(n - 1) }

\* _calculate_consensus_metrics is called again on the same results in
\* another order
Reorder ==
  /\ req.pc = "done"
  /\ \E p \in Reorderings(Len(out.model_results)) :
       LET rs == [i \in 1..Len(out.model_results) |-> out.model_results[p[i]]]
       IN  /\ out' = [out EXCEPT !.model_results = rs]
           /\ req' = [req EXCEPT !.pc = "reordered",
                                 !.result = calculate_consensus_metrics(rs)]
  /\ UNCHANGED << svc, cache, lim, calls, launched, prev, lcl >>

\* analyze_deep from the metrics on: the DeepAnalysisResult built on a list of
\* results that is not empty
Assemble ==
  /\ req.pc = "done"
  /\ out.model_results # << >>
  /\ req' = [req EXCEPT !.pc = "assembled",
                        !.result = DeepAnalysisResult(Essay(1500), << "T" >>,
                                                      "full",
                                                      out.model_results)]
  /\ UNCHANGED << svc, cache, lim, calls, launched, out, prev, lcl >>

NextMetrics == ComputeMetrics \/ Reorder \/ Assemble

-----------------------------------------------------------------------------
(* The score extractions on their own *)

\* _extract_score is called on the reply at hand
ExtractScore ==
  /\ req.pc = "idle"
  /\ \E k \in {"full", "paragraph"} :
       req' = [req EXCEPT !.kind = "extract_score", !.pc = "done",
                          !.atype = k,
                          !.result = extract_score(out.phase2.feedback, k)]
  /\ UNCHANGED << svc, cache, lim, calls, launched, out, prev, lcl >>

\* _extract_synthesis_score is called on the reply at hand
ExtractSynthesisScore ==
  /\ req.pc = "idle"
  /\ req' = [req EXCEPT !.kind = "extract_synthesis_score", !.pc = "done",
                        !.result = extract_synthesis_score(out.phase2.feedback)]
  /\ UNCHANGED << svc, cache, lim, calls, launched, out, prev, lcl >>

NextExtract == ExtractScore \/ ExtractSynthesisScore

-----------------------------------------------------------------------------
(* Specifications *)

ContentLens == {0, 1500, 9000, 10001}
Themes      == { << >>, << "T" >> }
Kinds       == {"full", "paragraph"}
Users       == {"", "u"}

AllUp   == [m \in Models |-> TRUE]
AllDown == [m \in Models |-> FALSE]

OnlyFullUp == [m \in Models |-> m = FullModel]

\* The registry's flags and the failing endpoints when a request arrives:
\*   Healthy      every model available and answering
\*   PrimaryDown  the full-essay primary failing
\*   Outage       everything failing, that primary the last model not yet flagged
\*   Flagged      every model still flagged after an outage that is over
DefaultMaxRetries == 3

\* the state after construction with the given retry budget, in one of the
\* given worlds, the clock at t0
InitAt(worlds, max_retries, t0) ==
  /\ config = [max_retries |-> max_retries, fallback_enabled |-> TRUE,
               window_size |-> 60, requests_per_minute |-> 1]
  /\ \E w \in worlds : available = w.available /\ apiDown = w.apiDown
  /\ timers = [m \in Models |-> IF available[m] THEN 0 ELSE 1]
  /\ resets = 0
  /\ cacheUp \in BOOLEAN
  /\ cache = << >>
  /\ now = t0
  /\ requests = << >>
  /\ req = IdleReq
  /\ calls = [c \in CallIds |-> IdleCall]
  /\ launched = << >>
  /\ out = NoOut
  /\ prev = NoPrev
  /\ clients = << >>
  /\ history = << >>
  /\ task_queue = NoQueue

\* the state after construction, in one of the given worlds
InitIn(worlds) == InitAt(worlds, MaxRetriesCfg, 30 * MaxNow)

Healthy     == [available |-> AllUp,      apiDown |-> {}]
PrimaryDown == [available |-> AllUp,      apiDown |-> {FullModel}]
Outage      == [available |-> OnlyFullUp, apiDown |-> Models]
Flagged     == [available |-> AllDown,    apiDown |-> {}]

InitEnh   == InitIn({Healthy, PrimaryDown, Outage})
InitDeep  == InitIn({Healthy, PrimaryDown, Outage, Flagged})
InitTwice == InitIn({Healthy, PrimaryDown})
InitAgain == InitIn({Healthy, PrimaryDown})
\* the clock half a minute before the last instant: the calls of a behaviour
\* fall within one window of the limiter
InitGate == InitAt({Healthy}, MaxRetriesCfg, 30 * (MaxNow - 1))
\* any AIServiceConfig: the canned response enabled or not
InitRepeat ==
  /\ \E f \in BOOLEAN :
       config = [max_retries |-> MaxRetriesCfg, fallback_enabled |-> f,
                 window_size |-> 60, requests_per_minute |-> 1]
  /\ \E w \in {Healthy, PrimaryDown, Outage} :
       available = w.available /\ apiDown = w.apiDown
  /\ timers = [m \in Models |-> IF available[m] THEN 0 ELSE 1]
  /\ resets = 0
  /\ cacheUp \in BOOLEAN
  /\ cache = << >>
  /\ now = 30 * MaxNow
  /\ requests = << >>
  /\ req = IdleReq
  /\ calls = [c \in CallIds |-> IdleCall]
  /\ launched = << >>
  /\ out = NoOut
  /\ prev = NoPrev
  /\ clients = << >>
  /\ history = << >>
  /\ task_queue = NoQueue

\* A result list is at hand: up to MaxResults results that failed, came
\* without a score or with any of ten scores, or one result per registered
\* model that failed or scored 500, 502 or 1000, or ten results of which the
\* first two scored 0, 500 or 1000 and the others 500.
InitMetrics ==
  LET ModelResult(m, o) ==
        [model |-> m, success |-> o.success, score |-> o.score,
         feedback |-> IF o.success
                        THEN [by |-> m, nota |-> o.score, total |-> 1000]
                      ELSE NoFeedback,
         error |-> IF o.success THEN "" ELSE "failed"]
      failed == [success |-> FALSE, score |-> Null]
      scored(S) == { [success |-> TRUE, score |-> x] : x \in S }
      any == {failed} \cup scored({Null, 0, 200, 300, 375, 450, 500, 550,
                                   625, 700, 800})
      few == {failed} \cup scored({500, 502, 1000})
      lists(k, O) == { [i \in 1..k |-> ModelResult(ModelKeys[i], f[i])] :
                         f \in [1..k -> O] }
      ten == << "m1", "m2", "m3", "m4", "m5", "m6", "m7", "m8", "m9", "m10" >>
      wide == { [i \in 1..Len(ten) |->
                   ModelResult(ten[i], [success |-> TRUE,
                                        score |-> IF i <= 2 THEN f[i]
                                                  ELSE 500])] :
                  f \in [1..2 -> {0, 500, 1000}] }
  IN  /\ config = [max_retries |-> MaxRetriesCfg, fallback_enabled |-> TRUE,
                   window_size |-> 60, requests_per_minute |-> 1]
      /\ available = AllUp
      /\ apiDown = {}
      /\ timers = [m \in Models |-> 0]
      /\ resets = 0
      /\ cacheUp = TRUE
      /\ cache = << >>
      /\ now = 0
      /\ requests = << >>
      /\ req = IdleReq
      /\ calls = [c \in CallIds |-> IdleCall]
      /\ launched = << >>
      /\ \E rs \in UNION { lists(k, any) : k \in 0..MaxResults }
                     \cup lists(Len(ModelKeys), few) \cup wide :
           out = [NoOut EXCEPT !.model_results = rs]
      /\ prev = NoPrev
      /\ clients = << >>
      /\ history = << >>
      /\ task_queue = NoQueue

\* the service as constructed, the endpoint of the full-essay model failing
\* or not, and three coroutines about to invoke that model
InitCooldown ==
  /\ config = [max_retries |-> MaxRetriesCfg, fallback_enabled |-> TRUE,
               window_size |-> 60, requests_per_minute |-> 1]
  /\ \E w \in {Healthy, PrimaryDown} :
       available = w.available /\ apiDown = w.apiDown
  /\ timers = [m \in Models |-> 0]
  /\ resets = 0
  /\ cacheUp = TRUE
  /\ cache = << >>
  /\ now = 0
  /\ requests = << >>
  /\ req = IdleReq
  /\ calls = [c \in CallIds |-> IdleCall]
  /\ launched = << >>
  /\ out = NoOut
  /\ prev = NoPrev
  /\ clients = [i \in Invokers |-> IdleInvoker]
  /\ history = << >>
  /\ task_queue = NoQueue

\* two runs about to start on an empty cache, connected or not, the primary
\* failing or not
InitPair ==
  /\ config = [max_retries |-> MaxRetriesCfg, fallback_enabled |-> TRUE,
               window_size |-> 60, requests_per_minute |-> 1]
  /\ \E w \in {Healthy, PrimaryDown} :
       available = w.available /\ apiDown = w.apiDown
  /\ timers = [m \in Models |-> 0]
  /\ resets = 0
  /\ cacheUp \in BOOLEAN
  /\ cache = << >>
  /\ now = 30 * MaxNow
  /\ requests = << >>
  /\ req = IdleReq
  /\ calls = [c \in CallIds |-> IdleCall]
  /\ launched = << >>
  /\ out = NoOut
  /\ prev = NoPrev
  /\ clients = NoRun
  /\ history = << >>
  /\ task_queue = NoQueue

\* A reply is at hand: without a marker, or with a marker "X/T" whose digits
\* are any of six numbers each.
InitExtract ==
  /\ config = [max_retries |-> MaxRetriesCfg, fallback_enabled |-> TRUE,
               window_size |-> 60, requests_per_minute |-> 1]
  /\ available = AllUp
  /\ apiDown = {}
  /\ timers = [m \in Models |-> 0]
  /\ resets = 0
  /\ cacheUp = TRUE
  /\ cache = << >>
  /\ now = 0
  /\ requests = << >>
  /\ req = IdleReq
  /\ calls = [c \in CallIds |-> IdleCall]
  /\ launched = << >>
  /\ \E x \in {Null, 0, 8, 85, 850, 1000, 1200},
        t \in {0, 10, 100, 1000, 1200, 2000} :
       out = [NoOut EXCEPT !.phase2.feedback =
                [by |-> FullModel, nota |-> x, total |-> t]]
  /\ prev = NoPrev
  /\ clients = << >>
  /\ history = << >>
  /\ task_queue = NoQueue

\* the full-essay primary failing or not, one call: no more resets fall due
\* than MaxResets
InitLive == InitAt({Healthy, PrimaryDown}, MaxRetriesCfg, 0)
InitCorrect == InitAt({Healthy, PrimaryDown, Outage, Flagged},
                      DefaultMaxRetries, 0)

\* how the Phase-2 call of a finished enhanced run ended
phase2_outcome(p2) ==
  IF ~p2.started THEN "skipped"
  ELSE IF p2.success THEN "succeeded"
  ELSE p2.error

\* The process is restarted after a finished enhanced run, late enough for
\* every cache entry to have expired: the service objects are constructed
\* again.  prev keeps what the finished run returned.
Restart ==
  /\ req.pc = "done"
  /\ req.kind = "enhanced"
  /\ prev' = [set |-> TRUE, count |-> out.successful_models,
              reliability_level |-> out.phase2.reliability_level,
              phase2 |-> phase2_outcome(out.phase2),
              scores |-> { out.model_results[i].score :
                             i \in DOMAIN out.model_results },
              call |-> IdleReq]
  /\ available' = AllUp
  /\ timers' = [m \in Models |-> 0]
  /\ resets' = 0
  /\ cache' = << >>
  /\ requests' = << >>
  /\ req' = IdleReq
  /\ calls' = [c \in CallIds |-> IdleCall]
  /\ launched' = << >>
  /\ out' = NoOut
  /\ UNCHANGED << config, cacheUp, apiDown, now, lcl >>

\* The call has returned or raised and its caller is gone; the services
\* stay as they are for the next call.  prev keeps the call that ended.
NextCall ==
  /\ req.pc \in {"done", "failed"}
  /\ prev' = [NoPrev EXCEPT !.set = TRUE, !.call = req]
  /\ req' = IdleReq
  /\ calls' = [c \in CallIds |-> IdleCall]
  /\ launched' = << >>
  /\ out' = NoOut
  /\ UNCHANGED << svc, cache, lim, lcl >>

CacheReply == \E c \in CallIds : CE_CacheReply(c)
Attempt    == \E c \in CallIds : CE_Attempt(c)
Timeout    == \E c \in CallIds : CE_Timeout(c)
ResetTimer == \E m \in Models : ResetModelAvailability(m)

RequestEnhanced ==
  \E n \in ContentLens, th \in Themes, k \in Kinds, u \in Users :
    AnalyzeEnhanced(n, th, k, u)

RequestDeep ==
  \E n \in ContentLens \ {9000}, th \in Themes, k \in Kinds, u \in Users :
    AnalyzeDeep(n, th, k, u)

\* the requests of the specification with consecutive calls: a 1500-character
\* essay on the theme bT, the 9000-character essay that goes on with b on
\* the theme T, an empty essay
AgainInputs == { << 1500, << "b", "T" >> >>, << 9000, << "T" >> >>,
                 << 0, << "T" >> >> }

\* one identified caller makes them all, through the same entry point
RequestAgain ==
  \E i \in AgainInputs, k \in Kinds :
    \/ /\ prev.set => prev.call.kind = "deep"
       /\ AnalyzeDeep(i[1], i[2], k, "u")
    \/ /\ prev.set => prev.call.kind = "enhanced"
       /\ AnalyzeEnhanced(i[1], i[2], k, "u")

\* one identified caller asks for the same essay, as a full essay or as a
\* paragraph, through the same entry point every time
RequestGate ==
  \E k \in Kinds :
    \/ /\ prev.set => prev.call.kind = "deep"
       /\ AnalyzeDeep(1500, << "T" >>, k, "u")
    \/ /\ prev.set => prev.call.kind = "enhanced"
       /\ AnalyzeEnhanced(1500, << "T" >>, k, "u")
    \/ /\ prev.set => prev.call.kind = "correct"
       /\ CorrectEssay(1500, << "T" >>, "deepseek", k, "u")

\* the same essay asked for again and again, as a full essay or as a
\* paragraph, by an identified or an anonymous caller
RequestRepeat ==
  \E k \in Kinds, u \in Users :
    CorrectEssay(1500, << "T" >>, "deepseek", k, u)

\* an empty essay, one of three blanks, one of 1500 characters, one too long
\* for either kind
RequestCorrect ==
  \E n \in {0, 3, 1500, 10001}, k \in Kinds, u \in Users :
    CorrectEssay(n, << "T" >>, "deepseek", k, u)

NextEnh ==
  \/ RequestEnhanced
  \/ Validate
  \/ CacheCheck
  \/ RateLimitEnhanced
  \/ CacheReply
  \/ Attempt
  \/ Timeout
  \/ ResetTimer
  \/ JoinPhase1
  \/ FinishPhase2
  \/ CacheWrite

NextDeep ==
  \/ RequestDeep
  \/ Validate
  \/ CacheCheck
  \/ RateLimitDeep
  \/ CacheReply
  \/ Attempt
  \/ Timeout
  \/ ResetTimer
  \/ JoinDeep
  \/ CacheWrite

NextTwice ==
  \/ RequestEnhanced
  \/ Validate
  \/ CacheCheck
  \/ RateLimitEnhanced
  \/ CacheReply
  \/ Attempt
  \/ Timeout
  \/ ResetTimer
  \/ JoinPhase1
  \/ FinishPhase2
  \/ CacheWrite
  \/ Restart

NextAgain ==
  \/ RequestAgain
  \/ Validate
  \/ CacheCheck
  \/ RateLimitDeep
  \/ RateLimitEnhanced
  \/ CacheReply
  \/ Attempt
  \/ Timeout
  \/ ResetTimer
  \/ JoinDeep
  \/ JoinPhase1
  \/ FinishPhase2
  \/ CacheWrite
  \/ NextCall

\* consecutive calls of one identified caller through the three entry
\* points, every model answering
NextGate ==
  \/ RequestGate
  \/ Validate
  \/ CacheCheck
  \/ RateLimitDeep
  \/ RateLimitEnhanced
  \/ CacheReply
  \/ Attempt
  \/ Timeout
  \/ JoinDeep
  \/ JoinPhase1
  \/ FinishPhase2
  \/ CacheWrite
  \/ CorrectReturn
  \/ NextCall

\* consecutive direct calls of correct_essay; of the failing endpoints, the
\* one of the full-essay primary may recover
NextRepeat ==
  \/ RequestRepeat
  \/ CacheReply
  \/ Attempt
  \/ ResetTimer
  \/ ApiRecover(FullModel)
  \/ CorrectReturn
  \/ NextCall

\* one direct call of correct_essay with the default retry configuration
NextCorrect ==
  \/ RequestCorrect
  \/ CacheReply
  \/ Attempt
  \/ ResetTimer
  \/ \E m \in Models : ApiRecover(m)
  \/ CorrectReturn

\* the limiter's own callers: one user's plain key and the keys the two
\* orchestrators derive from it
LimiterClients == 1..2
LimiterKeys == { "u", "deep_" \o "u", "enhanced_deep_" \o "u" }

InitLimiter ==
  /\ \E n \in 1..2 :
       config = [max_retries |-> MaxRetriesCfg, fallback_enabled |-> TRUE,
                 window_size |-> 60, requests_per_minute |-> n]
  /\ available = AllUp
  /\ apiDown = {}
  /\ timers = [m \in Models |-> 0]
  /\ resets = 0
  /\ cacheUp = TRUE
  /\ cache = << >>
  /\ now = 0
  /\ requests = << >>
  /\ req = IdleReq
  /\ calls = [c \in CallIds |-> IdleCall]
  /\ launched = << >>
  /\ out = NoOut
  /\ prev = NoPrev
  /\ clients = [p \in LimiterClients |-> IdleClient]
  /\ history = << >>
  /\ task_queue = NoQueue

NextLimiter ==
  \/ \E p \in LimiterClients, k \in LimiterKeys :
       LimiterCall(p, "is_allowed", k)
  \/ \E p \in LimiterClients, k \in LimiterKeys :
       LimiterCall(p, "get_user_status", k)
  \/ \E p \in LimiterClients : IsAllowed(p)
  \/ \E p \in LimiterClients : GetUserStatus(p)

SpecLimiter == InitLimiter /\ [][NextLimiter]_vars

SpecEnh  == InitEnh /\ [][NextEnh]_vars
\* Concurrent invocations of one model through _call_ai_model, on a clock

\* time passes
Tick ==
  /\ now + ResetDelay \div 2 \in CooldownInstants
  /\ now' = now + ResetDelay \div 2
  /\ UNCHANGED << svc, cache, requests, run, lcl >>

\* the failure branch once the usage log is written, or at once when there is
\* no user to log for: the flag is cleared and the reset task is created
FlagAndSchedule(i, inv) ==
  /\ available' = [available EXCEPT ![FullModel] = FALSE]
  /\ timers' = [timers EXCEPT ![FullModel] = @ + 1]
  /\ clients' = [clients EXCEPT ![i] = [inv EXCEPT !.pc = "sleeping",
                                                  !.due = now + ResetDelay]]

\* _call_ai_model up to its first await: the availability check, the
\* blocking call of the endpoint, and what follows it without an await
Invoke(i) ==
  /\ clients[i].pc = "idle"
  /\ \E u \in Users :
       LET inv == [clients[i] EXCEPT !.user = u]
       IN  IF ~available[FullModel]
             THEN /\ clients' = [clients EXCEPT ![i] = [inv EXCEPT !.pc = "refused"]]
                  /\ UNCHANGED << available, timers >>
           ELSE IF FullModel \notin apiDown
             THEN /\ clients' = [clients EXCEPT ![i] =
                                   [inv EXCEPT !.pc = "returned",
                                               !.contacted_at = now]]
                  /\ UNCHANGED << available, timers >>
           ELSE IF u # ""
             THEN /\ clients' = [clients EXCEPT ![i] =
                                   [inv EXCEPT !.pc = "logging",
                                               !.contacted_at = now]]
                  /\ UNCHANGED << available, timers >>
           ELSE FlagAndSchedule(i, [inv EXCEPT !.contacted_at = now])
  /\ UNCHANGED << config, resets, cacheUp, apiDown, cache, lim, run, history,
                  task_queue >>

\* db_adapter.log_api_usage has answered (or raised) in the failure branch
UsageLogged(i) ==
  /\ clients[i].pc = "logging"
  /\ FlagAndSchedule(i, clients[i])
  /\ UNCHANGED << config, resets, cacheUp, apiDown, cache, lim, run, history,
                  task_queue >>

\* _reset_model_availability wakes up from its sleep
ResetDue(i) ==
  /\ clients[i].pc = "sleeping"
  /\ now >= clients[i].due
  /\ available' = [available EXCEPT ![FullModel] = TRUE]
  /\ timers' = [timers EXCEPT ![FullModel] = @ - 1]
  /\ clients' = [clients EXCEPT ![i] = [@ EXCEPT !.pc = "reset",
                                                !.reset_at = now]]
  /\ UNCHANGED << config, resets, cacheUp, apiDown, cache, lim, run, history,
                  task_queue >>

NextCooldown ==
  \/ Tick
  \/ \E i \in Invokers : Invoke(i)
  \/ \E i \in Invokers : UsageLogged(i)
  \/ \E i \in Invokers : ResetDue(i)

\* Two analyze_deep runs on one event loop

\* analyze_deep is called for the same essay, theme and kind by either run
RequestPair == \E u \in Users : AnalyzeDeep(1500, << "T" >>, "full", u)

\* the event loop takes up the other run: the run under way waits at its
\* await, the one that waited goes on from its own.  The runs are exchanged
\* at the awaits of analyze_deep itself (the cache read, the gather once all
\* its tasks have ended, the cache write), not in the middle of a fan-out.
Switch ==
  /\ ~(req.pc \in {"done", "failed"} /\ clients.req.pc \in {"done", "failed"})
  /\ \A c \in CallIds : calls[c].st = "none" \/ Finished(c)
  /\ clients' = [req |-> req, calls |-> calls, launched |-> launched,
                 out |-> out]
  /\ req' = clients.req
  /\ calls' = clients.calls
  /\ launched' = clients.launched
  /\ out' = clients.out
  /\ UNCHANGED << svc, cache, lim, prev, history, task_queue >>

NextPair ==
  \/ RequestPair
  \/ Validate
  \/ CacheCheck
  \/ RateLimitDeep
  \/ CacheReply
  \/ Attempt
  \/ JoinDeep
  \/ CacheWrite
  \/ Switch

\* The registry when one correct_essay call arrives: every model flagged
\* available or every model flagged, the primary endpoints failing or not,
\* and either a reset task pending for each flagged model only or one reset
\* task of an earlier failure still pending for every model.
InitRetry ==
  /\ config = [max_retries |-> DefaultMaxRetries, fallback_enabled |-> TRUE,
               window_size |-> 60, requests_per_minute |-> 1]
  /\ available \in {AllUp, AllDown}
  /\ apiDown \in {{}, {FullModel}, {ParagraphModel, FullModel}}
  /\ timers \in {[m \in Models |-> IF available[m] THEN 0 ELSE 1],
                 [m \in Models |-> 1]}
  /\ resets = 0
  /\ cacheUp \in BOOLEAN
  /\ cache = << >>
  /\ now = 0
  /\ requests = << >>
  /\ req = IdleReq
  /\ calls = [c \in CallIds |-> IdleCall]
  /\ launched = << >>
  /\ out = NoOut
  /\ prev = NoPrev
  /\ clients = << >>
  /\ history = << >>
  /\ task_queue = NoQueue

RequestRetry ==
  \E k \in Kinds : CorrectEssay(1500, << "T" >>, "deepseek", k, "u")

\* the reset tasks the running call has created for model m: one for each
\* of its invocations that reached a failing endpoint
NewTimers(m) ==
  LET cl == calls[1]
      at == { i \in DOMAIN cl.tries : TryOrder(cl.primary)[i] = m }
  IN  IF m \in apiDown /\ at # {}
        THEN cl.tries[CHOOSE i \in at : TRUE].logged
        ELSE 0

\* A reset task created before the call wakes up while the call runs.  The
\* tasks the call creates itself sleep 300 s, longer than the backoff sleeps
\* of one retry loop together, and do not wake up before the loop has ended.
EarlierReset ==
  \E m \in Models :
    /\ timers[m] > NewTimers(m)
    /\ ResetModelAvailability(m)

NextRetry ==
  \/ RequestRetry
  \/ CacheReply
  \/ Attempt
  \/ EarlierReset
  \/ CorrectReturn

\* The connection to Redis is lost or comes back, or Redis starts or stops
\* raising: in both cases CacheManager.get answers None and CacheManager.set
\* answers False, which is what a cleared is_connected stands for here.
\* The change is taken between two calls and while an entry point waits on
\* its own cache read or write.
CacheFault ==
  /\ \/ req.pc \in {"idle", "cache_check", "cache_write"}
     \/ req.pc = "correct_running" /\ calls[1].st = "cache_get"
  /\ cacheUp' = ~cacheUp
  /\ UNCHANGED << config, available, timers, resets, apiDown, cache, lim, run,
                  lcl >>

InitFault == InitIn({Healthy, PrimaryDown})

\* a call of one of the three entry points and then the same call again,
\* without a user id, so that the limiter lets both pass
RequestFault ==
  \E k \in Kinds :
    /\ prev.set => k = prev.call.atype
    /\ \/ /\ prev.set => prev.call.kind = "deep"
          /\ AnalyzeDeep(1500, << "T" >>, k, "")
       \/ /\ prev.set => prev.call.kind = "enhanced"
          /\ AnalyzeEnhanced(1500, << "T" >>, k, "")
       \/ /\ prev.set => prev.call.kind = "correct"
          /\ CorrectEssay(1500, << "T" >>, "deepseek", k, "")

\* the first call has ended and the caller makes the second one
SecondCall ==
  /\ ~prev.set
  /\ NextCall

NextFault ==
  \/ RequestFault
  \/ Validate
  \/ CacheCheck
  \/ RateLimitDeep
  \/ RateLimitEnhanced
  \/ CacheReply
  \/ Attempt
  \/ JoinDeep
  \/ JoinPhase1
  \/ FinishPhase2
  \/ CacheWrite
  \/ CorrectReturn
  \/ SecondCall
  \/ CacheFault

-----------------------------------------------------------------------------
(* TaskQueue: enqueue, the worker loop, complete_task and retry_task.  Every
   await of a worker on the store is a step of its own; the lists are written
   head first (LPUSH) and read from the tail (RPOP). *)

lpush(l, x) == << x >> \o l

\* LREM list 1 x: the occurrence nearest to the head goes
lrem(l, x) ==
  LET at == { i \in 1..Len(l) : l[i] = x }
  IN  IF at = {} THEN l
      ELSE LET k == CHOOSE i \in at : \A j \in at : i <= j
           IN  SubSeq(l, 1, k - 1) \o SubSeq(l, k + 1, Len(l))

\* after connect() and start_workers(): empty lists, the workers started
InitQueue ==
  /\ config = [max_retries |-> MaxRetriesCfg, fallback_enabled |-> TRUE,
               window_size |-> 60, requests_per_minute |-> 1]
  /\ available = AllUp
  /\ apiDown = {}
  /\ timers = [m \in Models |-> 0]
  /\ resets = 0
  /\ cacheUp = TRUE
  /\ cache = << >>
  /\ now = 0
  /\ requests = << >>
  /\ req = IdleReq
  /\ calls = [c \in CallIds |-> IdleCall]
  /\ launched = << >>
  /\ out = NoOut
  /\ prev = NoPrev
  /\ clients = << >>
  /\ history = << >>
  /\ task_queue = [NoQueue EXCEPT !.is_running = TRUE,
                                  !.workers = [w \in Workers |-> IdleWorker]]

\* the task a worker is busy with
TaskOf(w) == task_queue.data[task_queue.workers[w].task]

Enqueue ==
  /\ Cardinality(DOMAIN task_queue.data) < MaxTasks
  /\ \E name \in TaskNames, priority \in {"high", "normal"},
        max_retries \in {0, MaxTaskRetries} :
       LET task_id == Cardinality(DOMAIN task_queue.data) + 1
           task == [name |-> name, priority |-> priority,
                    status |-> "pending", retry_count |-> 0,
                    max_retries |-> max_retries]
       IN  task_queue' =
             [task_queue EXCEPT
                !.data = [i \in 1..task_id |-> IF i = task_id THEN task ELSE @[i]],
                !.executed = [i \in 1..task_id |-> IF i = task_id THEN 0 ELSE @[i]],
                !.pending[priority] = lpush(@, task_id)]
  /\ UNCHANGED << svc, cache, lim, run, clients, history >>

\* get_next_task up to the RPOP that answers a task id
GetNextTask(w) ==
  /\ task_queue.is_running
  /\ task_queue.workers[w].pc = "idle"
  /\ \E i \in 1..Len(Priorities) :
       LET queue == task_queue.pending[Priorities[i]]
       IN  /\ queue # << >>
           /\ \A j \in 1..(i - 1) : task_queue.pending[Priorities[j]] = << >>
           /\ task_queue' =
                [task_queue EXCEPT
                   !.pending[Priorities[i]] = SubSeq(queue, 1, Len(queue) - 1),
                   !.workers[w] = [@ EXCEPT !.pc = "popped",
                                            !.task = queue[Len(queue)]]]
  /\ UNCHANGED << svc, cache, lim, run, clients, history >>

\* get_next_task: the task is read and its id pushed on the processing list
MoveToProcessing(w) ==
  /\ task_queue.workers[w].pc = "popped"
  /\ task_queue' =
       [task_queue EXCEPT
          !.processing = lpush(@, task_queue.workers[w].task),
          !.workers[w].pc = "dequeued"]
  /\ UNCHANGED << svc, cache, lim, run, clients, history >>

\* get_next_task marks the task PROCESSING and returns it; the worker looks
\* up the handler and starts it, or completes the task as failed without one
StartTask(w) ==
  /\ task_queue.workers[w].pc = "dequeued"
  /\ LET id == task_queue.workers[w].task
     IN  task_queue' =
           IF TaskOf(w).name \in task_handlers
             THEN [task_queue EXCEPT !.data[id].status = "processing",
                                     !.executed[id] = @ + 1,
                                     !.workers[w].pc = "executing"]
             ELSE [task_queue EXCEPT !.data[id].status = "processing",
                                     !.workers[w].pc = "complete",
                                     !.workers[w].success = FALSE]
  /\ UNCHANGED << svc, cache, lim, run, clients, history >>

\* wait_for(handler(...)) ends: a result, an exception or a timeout
HandlerEnds(w) ==
  /\ task_queue.workers[w].pc = "executing"
  /\ \E ok \in IF TaskOf(w).name = "fails" THEN {FALSE} ELSE BOOLEAN :
       task_queue' =
         IF ok THEN [task_queue EXCEPT !.workers[w].pc = "complete",
                                       !.workers[w].success = TRUE]
         ELSE [task_queue EXCEPT !.workers[w].pc = "retry"]
  /\ UNCHANGED << svc, cache, lim, run, clients, history >>

\* a retry_task that compares the stored count, not the incremented one
RetryTask_stored_count(w) ==
  /\ task_queue.workers[w].pc = "retry"
  /\ LET retry_count == TaskOf(w).retry_count + 1
     IN  task_queue' =
           IF TaskOf(w).retry_count <= TaskOf(w).max_retries
             THEN [task_queue EXCEPT !.workers[w].pc = "retry_lrem",
                                     !.workers[w].retry_count = retry_count]
             ELSE [task_queue EXCEPT !.workers[w].pc = "complete",
                                     !.workers[w].success = FALSE]
  /\ UNCHANGED << svc, cache, lim, run, clients, history >>

\* retry_task reads the task and counts the retry: another round, or
\* complete_task with "Max retries exceeded"
RetryTask(w) ==
  /\ task_queue.workers[w].pc = "retry"
  /\ LET retry_count == TaskOf(w).retry_count + 1
     IN  task_queue' =
           IF retry_count <= TaskOf(w).max_retries
             THEN [task_queue EXCEPT !.workers[w].pc = "retry_lrem",
                                     !.workers[w].retry_count = retry_count]
             ELSE [task_queue EXCEPT !.workers[w].pc = "complete",
                                     !.workers[w].success = FALSE]
  /\ UNCHANGED << svc, cache, lim, run, clients, history >>

\* retry_task takes the id off the processing list
RetryRemove(w) ==
  /\ task_queue.workers[w].pc = "retry_lrem"
  /\ task_queue' =
       [task_queue EXCEPT !.processing = lrem(@, task_queue.workers[w].task),
                          !.workers[w].pc = "retry_status"]
  /\ UNCHANGED << svc, cache, lim, run, clients, history >>

\* retry_task stores RETRYING and the new retry count, then sleeps
RetryStatus(w) ==
  /\ task_queue.workers[w].pc = "retry_status"
  /\ LET id == task_queue.workers[w].task
     IN  task_queue' =
           [task_queue EXCEPT
              !.data[id].status = "retrying",
              !.data[id].retry_count = task_queue.workers[w].retry_count,
              !.workers[w].pc = "retry_sleep"]
  /\ UNCHANGED << svc, cache, lim, run, clients, history >>

\* the backoff sleep is over: the id goes back on its priority queue and the
\* worker returns to its loop
RetryRequeue(w) ==
  /\ task_queue.workers[w].pc = "retry_sleep"
  /\ task_queue' =
       [task_queue EXCEPT
          !.pending[TaskOf(w).priority] = lpush(@, task_queue.workers[w].task),
          !.workers[w] = IdleWorker]
  /\ UNCHANGED << svc, cache, lim, run, clients, history >>

\* complete_task takes the id off the processing list
CompleteRemove(w) ==
  /\ task_queue.workers[w].pc = "complete"
  /\ task_queue' =
       [task_queue EXCEPT !.processing = lrem(@, task_queue.workers[w].task),
                          !.workers[w].pc = "complete_status"]
  /\ UNCHANGED << svc, cache, lim, run, clients, history >>

\* complete_task stores COMPLETED or FAILED
CompleteStatus(w) ==
  /\ task_queue.workers[w].pc = "complete_status"
  /\ task_queue' =
       [task_queue EXCEPT
          !.data[task_queue.workers[w].task].status =
             IF task_queue.workers[w].success THEN "completed" ELSE "failed",
          !.workers[w].pc = "complete_push"]
  /\ UNCHANGED << svc, cache, lim, run, clients, history >>

\* complete_task pushes the id on the completed or the failed list and
\* sends the notification; the worker returns to its loop
CompletePush(w) ==
  /\ task_queue.workers[w].pc = "complete_push"
  /\ LET id == task_queue.workers[w].task
     IN  task_queue' =
           [task_queue EXCEPT
              !.completed = IF task_queue.workers[w].success
                              THEN lpush(@, id) ELSE @,
              !.failed = IF task_queue.workers[w].success
                           THEN @ ELSE lpush(@, id),
              !.notifications = lpush(@, << id, task_queue.data[id].status >>),
              !.workers[w] = IdleWorker]
  /\ UNCHANGED << svc, cache, lim, run, clients, history >>

\* stop_workers clears is_running; each worker leaves its loop when it next
\* tests the flag
StopWorkers ==
  /\ task_queue.is_running
  /\ task_queue' = [task_queue EXCEPT !.is_running = FALSE]
  /\ UNCHANGED << svc, cache, lim, run, clients, history >>

WorkerStops(w) ==
  /\ ~task_queue.is_running
  /\ task_queue.workers[w].pc = "idle"
  /\ task_queue' = [task_queue EXCEPT !.workers[w].pc = "stopped"]
  /\ UNCHANGED << svc, cache, lim, run, clients, history >>

\* one step of the coroutine of worker w
WorkerStep(w) ==
  \/ GetNextTask(w)
  \/ MoveToProcessing(w)
  \/ StartTask(w)
  \/ HandlerEnds(w)
  \/ RetryTask(w)
  \/ RetryRemove(w)
  \/ RetryStatus(w)
  \/ RetryRequeue(w)
  \/ CompleteRemove(w)
  \/ CompleteStatus(w)
  \/ CompletePush(w)
  \/ WorkerStops(w)

NextQueue ==
  \/ Enqueue
  \/ StopWorkers
  \/ \E w \in Workers : WorkerStep(w)

SpecDeep == InitDeep /\ [][NextDeep]_vars
SpecTwice == InitTwice /\ [][NextTwice]_vars
SpecAgain == InitAgain /\ [][NextAgain]_vars
SpecCorrect == InitCorrect /\ [][NextCorrect]_vars
SpecGate == InitGate /\ [][NextGate]_vars
SpecRepeat == InitRepeat /\ [][NextRepeat]_vars
SpecMetrics == InitMetrics /\ [][NextMetrics]_vars
SpecExtract == InitExtract /\ [][NextExtract]_vars
SpecPair == InitPair /\ [][NextPair]_vars
SpecCooldown == InitCooldown /\ [][NextCooldown]_vars
SpecRetry == InitRetry /\ [][NextRetry]_vars
SpecFault == InitFault /\ [][NextFault]_vars
SpecQueue == InitQueue /\ [][NextQueue]_vars

\* the event loop runs every worker that can take a step
SpecQueueLive ==
  /\ InitQueue
  /\ [][NextQueue]_vars
  /\ \A w \in Workers : WF_vars(WorkerStep(w))

\* the event loop keeps running: a reset task that is due wakes up
SpecLive ==
  /\ InitLive
  /\ [][NextCorrect]_vars
  /\ \A m \in Models : WF_vars(ResetModelAvailability(m))

-----------------------------------------------------------------------------
(* Properties *)

Active(c) == calls[c].st \in {"cache_get", "running", "cache_set"}

FreshDeep     == req.kind = "deep" /\ ~req.from_cache
FreshEnhanced == req.kind = "enhanced" /\ ~req.from_cache

\* a launched task that ends in an exception or a timeout leaves every
\* sibling that is still under way as it was
NoSiblingAborted ==
  \A c, d \in CallIds :
    (/\ c # d
     /\ Active(c)
     /\ calls'[c].st \in {"raised", "cancelled"}
     /\ Active(d))
    => calls'[d] = calls[d]

\* C1: analyze() hands its results to the consensus computation only after
\* every launched model task has ended, no task that fails or times out
\* aborts a sibling, and the list handed over holds exactly one ModelResult
\* per launched model, in launch order.
C1_Barrier ==
  /\ [](FreshDeep /\ out.handed =>
          /\ \A c \in 1..Len(launched) : Finished(c)
          /\ Len(out.model_results) = Len(launched)
          /\ \A i \in 1..Len(launched) :
               out.model_results[i].model = launched[i])
  /\ [][NoSiblingAborted]_vars

\* a fan-out handed over with a timed-out task next to a successful one
C1_Witness ==
  /\ FreshDeep
  /\ out.handed
  /\ \E i, j \in DOMAIN out.model_results :
       /\ out.model_results[i].success
       /\ out.model_results[j].error = "timed out"

\* C2: Phase 2 of analyze_enhanced() starts only after all three Phase-1
\* tasks have ended, and successful_models is then exactly the number of
\* Phase-1 tasks whose call returned.
C2_Phase2AfterPhase1 ==
  FreshEnhanced /\ (out.phase2.started \/ calls[SynthCall].st # "none") =>
    /\ \A c \in 1..Len(Phase1Models) : Finished(c)
    /\ Len(out.model_results) = Len(Phase1Models)
    /\ out.successful_models =
         Cardinality({ c \in 1..Len(Phase1Models) : calls[c].st = "returned" })

\* Phase 2 under way after two Phase-1 successes and one timeout
C2_Witness ==
  /\ FreshEnhanced
  /\ req.pc = "phase2_synthesis"
  /\ out.successful_models = 2
  /\ \E c \in 1..Len(Phase1Models) : calls[c].st = "cancelled"

\* C3: the correct_essay call launched for model id m goes to m as its
\* primary model (the Phase-2 call to llama_49b), and a result labelled m
\* that no fallback answered carries m's own output.
C3_NamedModelInvoked ==
  /\ \A c \in CallIds :
       calls[c].st # "none" => calls[c].primary = calls[c].model_key
  /\ calls[SynthCall].st # "none" /\ req.kind = "enhanced" =>
       calls[SynthCall].primary = Phase2Model
  /\ ~req.from_cache =>
       \A i \in DOMAIN out.model_results :
         (/\ out.model_results[i].success
          /\ ~calls[i].result.is_fallback)
         => out.model_results[i].feedback.by = out.model_results[i].model

\* C4: a fan-out task whose call exhausted the primary and every fallback is
\* reported with success=false and score=null, and a ModelResult with
\* success=true never carries the canned service-unavailable text.
C4_ExhaustedTaskFails ==
  ~req.from_cache =>
    \A i \in DOMAIN out.model_results :
      /\ calls[i].result = get_fallback_response =>
           /\ ~out.model_results[i].success
           /\ out.model_results[i].score = Null
      /\ out.model_results[i].success =>
           out.model_results[i].feedback # CannedFeedback

\* C5: after a successful synthesis the reliability label is very_high for
\* 3 successful Phase-1 models, high for 2, medium for 1 and very_low for 0.
C5_ReliabilityTable ==
  FreshEnhanced /\ out.phase2.success =>
    out.phase2.reliability_level =
      CASE out.successful_models = 3 -> "very_high"
        [] out.successful_models = 2 -> "high"
        [] out.successful_models = 1 -> "medium"
        [] OTHER                     -> "very_low"

\* C6 as stated: two runs of analyze_enhanced() with the same number of
\* successful Phase-1 models return the same reliability_level, whatever
\* the Phase-1 scores were and however the Phase-2 call ended.
C6_LabelFromCountOnly ==
  (/\ prev.set
   /\ FreshEnhanced
   /\ req.pc = "done"
   /\ prev.count = out.successful_models)
  => prev.reliability_level = out.phase2.reliability_level

\* C6 amended: two runs of analyze_enhanced() with the same number of
\* successful Phase-1 models and the same outcome of the Phase-2 call
\* (skipped, succeeded, timed out, failed) return the same reliability_level,
\* whatever the Phase-1 scores were.
C6_LabelFromCountAndOutcome ==
  (/\ prev.set
   /\ FreshEnhanced
   /\ req.pc = "done"
   /\ prev.count = out.successful_models
   /\ prev.phase2 = phase2_outcome(out.phase2))
  => prev.reliability_level = out.phase2.reliability_level

\* two finished runs with the same count and both synthesis calls timed out,
\* but different Phase-1 scores
C6_Witness ==
  /\ prev.set
  /\ FreshEnhanced
  /\ req.pc = "done"
  /\ prev.count = out.successful_models
  /\ prev.count >= 1
  /\ prev.phase2 = "timed out"
  /\ phase2_outcome(out.phase2) = "timed out"
  /\ prev.scores #
       { out.model_results[i].score : i \in DOMAIN out.model_results }

\* C7: whenever at least one Phase-1 model succeeded, the synthesis call
\* (unless it timed out) has invoked a model, and its prompt embeds the raw
\* output of every successful Phase-1 model and of no failed one.
C7_SynthesisInvoked ==
  (/\ FreshEnhanced
   /\ req.pc \in {"cache_write", "done"}
   /\ out.successful_models >= 1
   /\ calls[SynthCall].st # "cancelled")
  => /\ calls[SynthCall].invoked
     /\ calls[SynthCall].content.outputs =
          get_raw_outputs_for_synthesis(out.model_results)

\* a call under way has a step to take: the cache answers it, or its
\* attempts can run
CanAdvance(c) ==
  LET cl == calls[c]
  IN  \/ cl.st = "cache_set"
      \/ cl.st = "cache_get" /\ cl.cached
      \/ /\ cl.st = "cache_get"
         /\ ~cl.cached
         /\ call_ai_models([cl EXCEPT !.st = "running", !.idx = 1,
                                      !.attempt = 0],
                           available, timers) # {}
      \/ /\ cl.st = "running"
         /\ call_ai_models(cl, available, timers) # {}

AllFailed ==
  /\ out.model_results # << >>
  /\ \A i \in DOMAIN out.model_results : ~out.model_results[i].success

\* a call that ended without the output of any model: it raised, it was
\* cancelled, or it exhausted the primary and every fallback
NoModelOutput(c) ==
  \/ calls[c].st \in {"raised", "cancelled"}
  \/ calls[c].st = "returned" /\ calls[c].result = get_fallback_response

\* C8: when all three Phase-1 tasks end without the output of any model,
\* analyze_enhanced() does not raise and its Phase2Result has success=false,
\* reliability_level "very_low" and final_score null, no Phase-2 call
\* having been made.
C8_AllPhase1Failed ==
  (/\ FreshEnhanced
   /\ Len(out.model_results) = Len(Phase1Models)
   /\ \A c \in 1..Len(Phase1Models) : NoModelOutput(c))
  => /\ req.pc \in {"cache_write", "done"}
     /\ ~out.phase2.success
     /\ out.phase2.reliability_level = "very_low"
     /\ out.phase2.final_score = Null
     /\ ~out.phase2.started
     /\ calls[SynthCall].st = "none"

\* C9: past validation and the rate-limit gate analyze_enhanced() never
\* raises, none of its model calls can hang before it returns, and a result
\* whose Phase 2 did not succeed has final_score null and reliability low
\* or very_low.
C9_AlwaysReturns ==
  FreshEnhanced /\ launched # << >> =>
    /\ req.pc \in {"fanout_running", "phase2_synthesis", "cache_write", "done"}
    /\ req.pc = "fanout_running" =>
         \A c \in 1..Len(launched) : Finished(c) \/ CanAdvance(c)
    /\ req.pc = "phase2_synthesis" =>
         Finished(SynthCall) \/ CanAdvance(SynthCall)
    /\ req.pc \in {"cache_write", "done"} /\ ~out.phase2.success =>
         /\ out.phase2.final_score = Null
         /\ out.phase2.reliability_level \in {"low", "very_low"}

\* a returned result after a Phase-1 timeout and a Phase-2 timeout
C9_Witness ==
  /\ FreshEnhanced
  /\ req.pc = "done"
  /\ out.phase2.error = "timed out"
  /\ out.successful_models = 2

\* C10: past validation and the rate-limit gate analyze() raises only when
\* no ModelResult was produced, with nothing written to the cache; once a
\* fan-out was launched it never raises, and its result, even with every
\* ModelResult failed, is handed to the consensus computation, returned and
\* (the cache being connected) cached.
C10_RaisesOnlyWithoutResults ==
  req.kind = "deep" =>
    /\ req.pc = "failed" /\ req.err \notin {"invalid_input", "rate_limit"} =>
         /\ launched = << >>
         /\ out.model_results = << >>
         /\ cache = << >>
    /\ ~req.from_cache /\ launched # << >> =>
         /\ req.pc \in {"fanout_running", "cache_write", "done"}
         /\ req.pc = "fanout_running" =>
              \A c \in 1..Len(launched) : Finished(c) \/ CanAdvance(c)
         /\ req.pc \in {"cache_write", "done"} =>
              /\ out.handed
              /\ Len(out.model_results) = Len(launched)
         /\ req.pc = "done" /\ cacheUp =>
              /\ cache_hit(OrchestratorKey)
              /\ deserialize_deep_result(cache[OrchestratorKey]) = req.result
              /\ req.result.model_results = out.model_results

\* a returned and cached result in which every ModelResult has failed
C10_Witness ==
  /\ FreshDeep
  /\ req.pc = "done"
  /\ AllFailed
  /\ cache_hit(OrchestratorKey)
  /\ deserialize_deep_result(cache[OrchestratorKey]) = req.result

\* the call under way asks for what the call before it asked for
SameTriple ==
  /\ prev.set
  /\ req.kind = prev.call.kind
  /\ req.content = prev.call.content
  /\ req.theme = prev.call.theme
  /\ req.atype = prev.call.atype

NoModelCall ==
  /\ launched = << >>
  /\ \A c \in CallIds : calls[c].st = "none"

\* C11: with a working cache, an analyze() or analyze_enhanced() call that
\* follows a returned call for the same (content, theme, kind) makes no model
\* call and returns, read back from the cache, a result equal to the one the
\* first call returned; what a call has just cached reads back as the result
\* it returns: deserialize(serialize(r)) = r.
C11_CacheIdempotence ==
  /\ (/\ SameTriple
      /\ cacheUp
      /\ prev.call.pc = "done"
      /\ req.pc \in {"rate_limit_check", "fanout_running", "phase2_synthesis",
                     "cache_write", "done", "failed"})
     => /\ req.pc = "done"
        /\ req.from_cache
        /\ NoModelCall
        /\ req.result = prev.call.result
  /\ (cacheUp /\ req.pc = "done" /\ ~req.from_cache) =>
        /\ cache_hit(req.result.cache_key)
        /\ req.kind = "deep" =>
             /\ deserializable(cache[req.result.cache_key])
             /\ deserialize_deep_result(cache[req.result.cache_key]) = req.result
        /\ req.kind = "enhanced" =>
             deserialize_enhanced_result(cache[req.result.cache_key]) = req.result

\* a second analyze() answered from the cache with the result of a first
\* one that had a consensus score and a failed model
C11_Witness ==
  /\ SameTriple
  /\ req.kind = "deep"
  /\ req.pc = "done"
  /\ req.from_cache
  /\ ~prev.call.from_cache
  /\ prev.call.pc = "done"
  /\ req.result.final_score # Null
  /\ \E i \in DOMAIN req.result.model_results :
       ~req.result.model_results[i].success

\* the steps of a run, in the order the orchestrators take them
PipelineEdges ==
  { << "idle", "validating" >>,
    << "validating", "cache_check" >>, << "validating", "failed" >>,
    << "cache_check", "done" >>, << "cache_check", "rate_limit_check" >>,
    << "rate_limit_check", "fanout_running" >>,
    << "rate_limit_check", "failed" >>,
    << "fanout_running", "phase2_synthesis" >>,
    << "fanout_running", "cache_write" >>, << "fanout_running", "failed" >>,
    << "phase2_synthesis", "cache_write" >>,
    << "cache_write", "done" >>,
    << "done", "idle" >>, << "failed", "idle" >> }

OrchestratorNamespaces == {"deep_analysis", "enhanced_deep_analysis"}

\* one step of a run keeps the order of the pipeline
PipelineStep ==
  /\ req'.pc # req.pc => << req.pc, req'.pc >> \in PipelineEdges
  /\ req.pc = "cache_check" /\ req'.pc = "done" =>
       /\ req'.from_cache
       /\ requests' = requests
       /\ calls' = calls
       /\ launched' = launched
       /\ cache' = cache
  /\ \A c \in CallIds :
       calls[c].st = "none" /\ calls'[c].st # "none" =>
         /\ req.pc \in {"rate_limit_check", "fanout_running"}
         /\ req'.pc \in {"fanout_running", "phase2_synthesis"}
  /\ \A k \in DOMAIN cache' :
       (/\ k.ns \in OrchestratorNamespaces
        /\ (k \in DOMAIN cache => cache'[k] # cache[k]))
       => /\ req.pc = "cache_write"
          /\ req.result # NoReturn
          /\ req.kind = "deep" => out.handed
          /\ req.kind = "enhanced" => out.phase2.reliability_level # ""

\* C12 as stated, its last part: nothing is written to the cache before the
\* consensus/synthesis step of the run has finished.
C12_NoWriteBeforeSynthesis ==
  [][cache' # cache => req.pc = "cache_write"]_vars

\* C12 amended: every run of analyze() and analyze_enhanced() goes through
\* validation, cache check, rate-limit check, fan-out, consensus/synthesis
\* and cache write in that order; a cache hit returns right after the cache
\* check, with no rate-limit slot consumed and no model call made; and the
\* run's own cache entry (deep_analysis / enhanced_deep_analysis) is written
\* only once its consensus/synthesis step has produced the result, while the
\* single-model calls of the fan-out cache their ai:result entries as they
\* return.
C12_PipelineOrder ==
  /\ [][PipelineStep]_vars
  /\ [](req.from_cache => req.pc = "done" /\ NoModelCall)
  /\ [](req.pc \in {"cache_write", "done"} /\ ~req.from_cache =>
          /\ req.result # NoReturn
          /\ launched # << >>
          /\ \A c \in 1..Len(launched) : Finished(c))

\* an analyze_enhanced() answered from the cache after a run that went
\* through the whole pipeline, the limiter holding that run's slot only
C12_Witness ==
  /\ req.kind = "enhanced"
  /\ req.pc = "done"
  /\ req.from_cache
  /\ prev.set
  /\ prev.call.pc = "done"
  /\ ~prev.call.from_cache
  /\ Len(requests["enhanced_deep_u"]) = 1

\* the cache key an orchestrator derives from a call's arguments
KeyOf(call) ==
  IF call.kind = "deep"
    THEN generate_deep_cache_key(Essay(call.content), call.theme, call.atype)
    ELSE generate_enhanced_cache_key(Essay(call.content), call.theme, call.atype)

\* C13: the cache keys of two calls that differ in content, theme or kind
\* differ, so that a result returned from the cache was computed for the
\* theme and the content of the call; and the keys of the ai:result,
\* deep_analysis and enhanced_deep_analysis namespaces never coincide.
C13_KeySeparatesTriples ==
  /\ (/\ prev.set
      /\ req.pc # "idle"
      /\ req.kind = prev.call.kind
      /\ << req.content, req.theme, req.atype >> #
           << prev.call.content, prev.call.theme, prev.call.atype >>)
     => KeyOf(req) # KeyOf(prev.call)
  /\ req.from_cache =>
       req.result.theme = req.theme
  /\ req.pc # "idle" =>
       /\ generate_deep_cache_key(Essay(req.content), req.theme, req.atype) #
            generate_enhanced_cache_key(Essay(req.content), req.theme, req.atype)
       /\ \A m \in Models :
            ai_cache_key(Essay(req.content), req.theme, m, req.atype) \notin
              { generate_deep_cache_key(Essay(req.content), req.theme, req.atype),
                generate_enhanced_cache_key(Essay(req.content), req.theme,
                                            req.atype) }

\* the answers of is_allowed on a key, oldest first
Answers(key) ==
  SelectSeq(history, LAMBDA e : e.op = "is_allowed" /\ e.key = key)

\* C14: for every key and in every interleaving of is_allowed callers, the
\* calls allowed on the key at instants less than window_size apart never
\* number more than requests_per_minute, and the key's timestamp list never
\* holds more than requests_per_minute entries when a check has returned.
C14_WindowLimit ==
  /\ \A k \in DOMAIN requests : Len(requests[k]) <= config.requests_per_minute
  /\ \A k \in LimiterKeys :
       \A i \in DOMAIN Answers(k) :
         Cardinality({ j \in DOMAIN Answers(k) :
                         /\ Answers(k)[j].allowed
                         /\ Answers(k)[j].t >= Answers(k)[i].t
                         /\ Answers(k)[j].t < Answers(k)[i].t + config.window_size })
           <= config.requests_per_minute

\* with two coroutines waiting for the lock, a key with two allowed calls
\* inside the window and a denied third
C14_Witness ==
  /\ config.requests_per_minute = 2
  /\ \E k \in LimiterKeys :
       /\ Len(Answers(k)) = 3
       /\ Answers(k)[1].allowed
       /\ Answers(k)[2].allowed
       /\ ~Answers(k)[3].allowed
       /\ Answers(k)[3].t < Answers(k)[1].t + config.window_size

\* C15: an allowed call returns (True, None) and every denial carries a
\* wait > 0; a call on the same key made exactly that wait after a denial,
\* with no call on the key allowed in between, is allowed; and with
\* requests_per_minute = 1 a call is allowed exactly when no call on the key
\* was allowed less than window_size seconds before it, so that two calls
\* inside the window return (True, None) then (False, wait) and a call after
\* the window has passed returns (True, None) again.
C15_WindowBehaviour ==
  \A k \in LimiterKeys :
    LET A == Answers(k)
    IN  /\ \A i \in DOMAIN A :
             IF A[i].allowed THEN A[i].wait_time = Null ELSE A[i].wait_time > 0
        /\ \A i, j \in DOMAIN A :
             (/\ i < j
              /\ ~A[i].allowed
              /\ A[j].t = A[i].t + A[i].wait_time
              /\ \A m \in (i + 1)..(j - 1) : ~A[m].allowed)
             => A[j].allowed
        /\ config.requests_per_minute = 1 =>
             \A j \in DOMAIN A :
               A[j].allowed <=>
                 ~\E i \in 1..(j - 1) :
                    /\ A[i].allowed
                    /\ A[j].t - A[i].t < config.window_size

\* one request per window: allowed, denied half a window later with half a
\* window to wait, allowed again exactly that wait later
C15_Witness ==
  /\ config.requests_per_minute = 1
  /\ \E k \in LimiterKeys :
       /\ Len(Answers(k)) = 3
       /\ Answers(k)[1].allowed
       /\ ~Answers(k)[2].allowed
       /\ Answers(k)[2].wait_time = 30
       /\ Answers(k)[3].t = Answers(k)[2].t + 30
       /\ Answers(k)[3].allowed

\* a step of is_allowed on the key k1 leaves every other key as it was: its
\* stored timestamps, the answer is_allowed would give on it at any instant
\* and the status reported for it
OtherKeysUntouched ==
  \A p \in LimiterClients :
    (clients[p].pc = "waiting" /\ clients'[p].pc = "idle"
       /\ clients[p].op = "is_allowed")
    => \A k2 \in LimiterKeys \ {clients[p].key} :
         /\ k2 \in DOMAIN requests => /\ k2 \in DOMAIN requests'
                                       /\ requests'[k2] = requests[k2]
         /\ k2 \notin DOMAIN requests => k2 \notin DOMAIN requests'
         /\ \A t \in { 30 * i : i \in 0..MaxNow } :
              /\ is_allowed(k2, t).allowed = (is_allowed(k2, t).allowed)'
              /\ is_allowed(k2, t).wait_time = (is_allowed(k2, t).wait_time)'
              /\ get_user_status(k2, t) = (get_user_status(k2, t))'

\* C16: an is_allowed call on a key never changes the stored timestamps,
\* the allow/deny outcome or the reported status of any other key, and the
\* keys "deep_"+user and "enhanced_deep_"+user are buckets separate from
\* each other and from the plain user key.
C16_KeysIndependent ==
  /\ [][OtherKeysUntouched]_vars
  /\ [](\A k1, k2 \in LimiterKeys :
          (/\ k1 # k2
           /\ Answers(k2) = << >>)
          => (k2 \in DOMAIN requests => requests[k2] = << >>))
  /\ [](Cardinality(LimiterKeys) = 3)

\* the user's plain key exhausted and denied while the two derived keys
\* are each allowed their own request at the same instant
C16_Witness ==
  /\ config.requests_per_minute = 1
  /\ Len(history) = 3
  /\ \A i \in 1..3 : history[i].op = "is_allowed" /\ history[i].t = 30
  /\ history[1].key = "u" /\ history[1].allowed
  /\ history[2].key = "deep_u" /\ history[2].allowed
  /\ history[3].key = "u" /\ ~history[3].allowed

\* a step of get_user_status changes nothing in the limiter and reports the
\* key's timestamps inside the window
StatusStep ==
  \A p \in LimiterClients :
    (clients[p].pc = "waiting" /\ clients'[p].pc = "idle"
       /\ clients[p].op = "get_user_status")
    => LET e == history'[Len(history')]
           k == clients[p].key
           inside == IF k \in DOMAIN requests
                       THEN { i \in DOMAIN requests[k] :
                                requests[k][i] > e.t - config.window_size }
                       ELSE {}
           left == config.requests_per_minute - Cardinality(inside)
       IN  /\ requests' = requests
           /\ \A k2 \in LimiterKeys, t \in { 30 * i : i \in 0..MaxNow } :
                /\ is_allowed(k2, t).allowed = (is_allowed(k2, t).allowed)'
                /\ is_allowed(k2, t).wait_time = (is_allowed(k2, t).wait_time)'
           /\ e.status.requests_made = Cardinality(inside)
           /\ e.status.requests_remaining = IF left > 0 THEN left ELSE 0
           /\ e.status.reset_time # Null <=>
                (e.status.requests_remaining = 0 /\ e.status.requests_made > 0)

\* C17: get_user_status(key) leaves the limiter state unchanged, so that any
\* later is_allowed has the outcome it would have had without it, and
\* reports requests_made equal to the number of the key's timestamps inside
\* the current window, requests_remaining = max(0, max_requests -
\* requests_made), and a non-null reset_time exactly when requests_remaining
\* is 0 and requests_made > 0.
C17_StatusReadOnly ==
  [][StatusStep]_vars

\* a status asked once the key's only request has left the window: the
\* timestamp is still stored, and the status reports none made
C17_Witness ==
  /\ Len(history) = 2
  /\ history[1].op = "is_allowed"
  /\ history[1].allowed
  /\ history[2].op = "get_user_status"
  /\ history[2].key = history[1].key
  /\ history[2].t = history[1].t + config.window_size
  /\ Len(requests[history[1].key]) = 1
  /\ history[2].status.requests_made = 0
  /\ history[2].status.reset_time = Null

\* the key the entry point of the call under way asks the limiter about
GateKey ==
  CASE req.kind = "deep"     -> "deep_" \o req.user
    [] req.kind = "enhanced" -> "enhanced_deep_" \o req.user
    [] OTHER                 -> req.user

\* the call under way has not passed the rate-limit gate, or was denied there
AtOrBeforeGate ==
  \/ req.pc \in {"validating", "cache_check", "rate_limit_check"}
  \/ req.err = "rate_limit"

\* C18: when the limiter denies the caller's key, correct(), analyze() and
\* analyze_enhanced() raise RateLimitExceeded with the wait time the limiter
\* answered for that key at that instant; the denied call has invoked no
\* model, and no step of it has written to the cache.
C18_DeniedCall ==
  /\ [](req.err = "rate_limit" =>
          /\ req.pc = "failed"
          /\ req.user # ""
          /\ ~is_allowed(GateKey, now).allowed
          /\ req.wait_time = is_allowed(GateKey, now).wait_time
          /\ NoModelCall)
  /\ [][(AtOrBeforeGate \/ req'.err = "rate_limit") => cache' = cache]_vars

\* a correct() denied half a minute after the caller's first one was served
\* and cached
C18_Witness ==
  /\ req.kind = "correct"
  /\ req.err = "rate_limit"
  /\ req.wait_time = 30
  /\ prev.call.kind = "correct"
  /\ prev.call.pc = "done"
  /\ cache # << >>

\* the sleeps of the retry wrapper: after the failed attempt number j - 1 it
\* sleeps min(base_delay * 2^(j-1), max_delay), and it sleeps between
\* attempts only
BackoffSleeps ==
  \A c \in CallIds : \A i \in DOMAIN calls[c].tries :
    LET tr == calls[c].tries[i]
    IN  /\ \A j \in DOMAIN tr.slept :
             tr.slept[j] = IF 2^(j - 1) < 60 THEN 2^(j - 1) ELSE 60
        /\ Len(tr.slept) \in {tr.n - 1, tr.n}
        /\ Len(tr.slept) = tr.n =>
             /\ i = calls[c].idx
             /\ calls[c].st = "running"
             /\ ~tr.ok

\* C19: with the default retry configuration, the retry wrapper invokes the
\* model call for one model at most 3 times before it gives up, sleeping
\* min(base_delay * 2^attempt, max_delay) between consecutive attempts and
\* not after the last one.
C19_AtMostThreeAttempts ==
  /\ BackoffSleeps
  /\ \A c \in CallIds : \A i \in DOMAIN calls[c].tries :
       calls[c].tries[i].n <= 3

\* C20: if the invocation of the primary model fails k times, k below the
\* attempt limit, and then succeeds, correct() returns that model's result
\* with is_fallback false after exactly k + 1 invocations, no fallback model
\* having been invoked.
C20_RetryThenSuccess ==
  (Len(calls[1].tries) >= 1 /\ calls[1].tries[1].ok) =>
     LET cl == calls[1]
     IN  /\ cl.tries[1].failed <= config.max_retries
         /\ cl.tries[1].n = cl.tries[1].failed + 1
         /\ Len(cl.tries) = 1
         /\ cl.st \in {"cache_set", "returned"}
         /\ cl.result.model = cl.primary
         /\ cl.result.feedback.by = cl.primary
         /\ ~cl.result.is_fallback
         /\ req.pc # "failed"
         /\ req.pc = "done" => req.result = cl.result

\* correct() has returned the primary's answer, obtained on the third
\* invocation after two failures
C20_Witness ==
  /\ req.kind = "correct"
  /\ req.pc = "done"
  /\ Len(calls[1].tries) = 1
  /\ calls[1].tries[1].n = 3
  /\ calls[1].tries[1].failed = 2
  /\ calls[1].tries[1].ok
  /\ calls[1].tries[1].slept = << 1, 2 >>
  /\ req.result.model = calls[1].primary
  /\ ~req.result.is_fallback

\* C21: when the primary model has exhausted its retries, correct() tries the
\* other registered models one after the other, each with the same retry
\* logic and never the primary again; it stops at the first one that answers
\* and returns is_fallback = true with the id of the model that answered.
C21_FallbackChain ==
  LET cl == calls[1]
      t  == cl.tries
  IN  /\ Len(t) >= 1 => t[1].model = cl.primary
      /\ \A i \in DOMAIN t :
           /\ t[i].model \in Models
           /\ i > 1 => t[i].model # cl.primary
           /\ \A j \in DOMAIN t : i # j => t[i].model # t[j].model
           /\ t[i].n <= config.max_retries + 1
           /\ i < Len(t) => /\ ~t[i].ok
                            /\ t[i].failed = config.max_retries + 1
                            /\ t[i].n = t[i].failed
      /\ cl.result.model # "" =>
           /\ t[Len(t)].ok
           /\ cl.result.model = t[Len(t)].model
           /\ cl.result.feedback.by = cl.result.model
           /\ cl.result.is_fallback = (Len(t) > 1)
      /\ (req.kind = "correct" /\ req.pc = "done" /\ ~cl.cached) =>
           req.result = cl.result

\* correct() has returned the answer of the second fallback model after the
\* primary and the first fallback had exhausted their retries
C21_Witness ==
  /\ req.kind = "correct"
  /\ req.pc = "done"
  /\ Len(calls[1].tries) = 3
  /\ calls[1].tries[2].n = config.max_retries + 1
  /\ req.result.is_fallback
  /\ req.result.model = calls[1].tries[3].model
  /\ req.result.model # calls[1].primary

\* C22: if the primary model and every fallback model fail, correct()
\* returns the canned service-unavailable response with score null and
\* is_fallback true, and never raises, whatever the AIServiceConfig.
C22_CannedNeverRaises ==
  LET cl == calls[1]
  IN  (/\ req.kind = "correct"
       /\ Finished(1)
       /\ Len(cl.tries) = Len(ModelKeys)
       /\ \A i \in DOMAIN cl.tries : ~cl.tries[i].ok)
      => /\ cl.st = "returned"
         /\ cl.result.score = Null
         /\ cl.result.is_fallback
         /\ cl.result.feedback = CannedFeedback
         /\ req.pc # "failed"

\* C24: on a cache hit correct() returns the cached value unchanged, with no
\* model invocation, no retry or fallback and no cache write, and leaves the
\* availability flags and their timers as they are.
C24_CacheHit ==
  /\ [][(/\ req.pc = "idle"
         /\ req'.pc = "correct_running"
         /\ cacheUp
         /\ cache_hit(ai_cache_key(Essay(req'.content), req'.theme,
                                   select_model("deepseek", req'.atype),
                                   req'.atype)))
        => /\ calls'[1].cached
           /\ calls'[1].result =
                cache[ai_cache_key(Essay(req'.content), req'.theme,
                                   select_model("deepseek", req'.atype),
                                   req'.atype)]]_vars
  /\ [][(/\ calls[1].cached \/ calls'[1].cached
         /\ calls' # calls \/ req' # req)
        => /\ cache' = cache
           /\ available' = available
           /\ timers' = timers]_vars
  /\ [](calls[1].cached =>
          /\ calls[1].tries = << >>
          /\ ~calls[1].invoked
          /\ calls[1].st \in {"cache_get", "returned"}
          /\ calls[1].result = cache[ai_cache_key(calls[1].content,
                                                  calls[1].theme,
                                                  calls[1].primary,
                                                  calls[1].atype)]
          /\ req.pc = "done" => req.result = calls[1].result)

\* an anonymous correct() answered from the cache with the fallback result
\* that the call before it had cached
C24_Witness ==
  /\ req.kind = "correct"
  /\ req.pc = "done"
  /\ calls[1].cached
  /\ req.result.is_fallback
  /\ req.result.model # ""
  /\ prev.call.pc = "done"
  /\ req.result = prev.call.result

\* C25: every result that correct() returns from a model call, of the primary
\* or of a fallback model, is in the cache under the request's key when it
\* is returned (the cache being connected); the canned response is never
\* written to the cache, so that a later identical request goes to the
\* models again.
C25_ModelResultsCached ==
  LET cl  == calls[1]
      key == ai_cache_key(cl.content, cl.theme, cl.primary, cl.atype)
  IN  /\ (/\ req.kind = "correct"
          /\ cacheUp
          /\ cl.st = "returned"
          /\ cl.result.model # "")
         => /\ cache_hit(key)
            /\ cache[key] = cl.result
      /\ \A k \in DOMAIN cache :
           /\ cache[k].model # ""
           /\ cache[k].feedback # CannedFeedback
      /\ (/\ req.kind = "correct"
          /\ Finished(1)
          /\ SameTriple
          /\ prev.call.pc = "done"
          /\ prev.call.result.model = "")
         => /\ ~cl.cached
            /\ cl.tries # << >>

\* a correct() that got the canned response, then the same request answered
\* by the recovered primary and cached
C25_Witness ==
  /\ req.kind = "correct"
  /\ req.pc = "done"
  /\ SameTriple
  /\ prev.call.pc = "done"
  /\ prev.call.result.model = ""
  /\ req.result.model = calls[1].primary
  /\ cacheUp
  /\ cache_hit(ai_cache_key(calls[1].content, calls[1].theme,
                            calls[1].primary, calls[1].atype))
  /\ cache[ai_cache_key(calls[1].content, calls[1].theme,
                        calls[1].primary, calls[1].atype)] = req.result
  /\ cache_hit(ai_cache_key(calls[1].content, calls[1].theme,
                            calls[1].primary, calls[1].atype))

\* C23: correct() called with empty or blank content, or with content longer
\* than 2000 characters (paragraph) or 10000 characters (full), raises the
\* input error with the limiter, the cache, the availability flags and their
\* timers unchanged, and with no model call started.
C23_InvalidInput ==
  [][(/\ req.pc = "idle"
      /\ req'.kind = "correct"
      /\ \/ req'.content = 0
         \/ EssayText(req'.content) = << " " >>
         \/ req'.atype = "paragraph" /\ req'.content > 2000
         \/ req'.atype = "full" /\ req'.content > 10000)
     => /\ req'.pc = "failed"
        /\ req'.err \in {"empty", "too_long"}
        /\ requests' = requests
        /\ now' = now
        /\ cache' = cache
        /\ available' = available
        /\ timers' = timers
        /\ calls' = calls
        /\ \A c \in CallIds : calls[c].st = "none"]_vars

\* an identified caller's essay of blanks refused with no limiter slot taken
C23_Witness ==
  /\ req.kind = "correct"
  /\ req.pc = "failed"
  /\ req.err = "empty"
  /\ req.content = 3
  /\ req.user = "u"
  /\ "u" \notin DOMAIN requests

\* C26: an invocation of a model whose available flag is false fails at once:
\* whether the endpoint would answer or not, no usage-log entry is written,
\* the flag stays false and no reset timer is scheduled.
C26_FlaggedInvoke ==
  [][\A i \in DOMAIN calls'[1].tries :
       LET new == calls'[1].tries[i]
           old == IF i \in DOMAIN calls[1].tries THEN calls[1].tries[i]
                  ELSE [n |-> 0, failed |-> 0, logged |-> 0]
       IN  (new.n > old.n /\ ~available[new.model]) =>
             /\ new.n = old.n + 1
             /\ new.failed = old.failed + 1
             /\ ~new.ok
             /\ new.logged = old.logged
             /\ ~available'[new.model]
             /\ timers'[new.model] = timers[new.model]]_vars

\* an identified caller's correct() has invoked its flagged primary, whose
\* endpoint answers: the invocation failed and was not logged
C26_Witness ==
  /\ calls[1].user = "u"
  /\ Len(calls[1].tries) = 1
  /\ calls[1].tries[1].n = 1
  /\ calls[1].tries[1].failed = 1
  /\ calls[1].tries[1].logged = 0
  /\ calls[1].tries[1].model \notin apiDown
  /\ ~available[calls[1].tries[1].model]
  /\ timers[calls[1].tries[1].model] = 1

\* C27: whenever an underlying call to model m fails, m is flagged
\* unavailable and a reset is scheduled before the failure reaches the
\* caller; every flagged model has a reset pending, and, the event loop
\* running and the timers firing, becomes available again.
C27_FlagAndReset ==
  /\ [][\A i \in DOMAIN calls'[1].tries :
          LET new == calls'[1].tries[i]
              old == IF i \in DOMAIN calls[1].tries THEN calls[1].tries[i]
                     ELSE [n |-> 0, failed |-> 0, logged |-> 0]
          IN  (new.failed > old.failed /\ available[new.model]) =>
                /\ ~available'[new.model]
                /\ timers'[new.model] = timers[new.model] + 1]_vars
  /\ [](\A m \in Models : ~available[m] => timers[m] > 0)
  /\ \A m \in Models : (~available[m]) ~> available[m]

\* the primary's endpoint has failed under a call: the model is flagged and
\* its reset is pending
C27_Witness ==
  /\ Len(calls[1].tries) >= 1
  /\ calls[1].tries[1].failed >= 1
  /\ ~available[calls[1].primary]
  /\ timers[calls[1].primary] = 1
  /\ resets = 0

\* C28: given a list with fewer than 2 successful results that carry a score,
\* the empty list included, the metrics are variance 0, agreement 0,
\* reliability very_low, no outliers and no consensus score.
C28_TooFewScores ==
  (/\ req.pc = "done"
   /\ Cardinality({ i \in DOMAIN out.model_results :
                      /\ out.model_results[i].success
                      /\ out.model_results[i].score # Null }) < 2)
  => /\ req.result.score_variance.num = 0
     /\ req.result.score_std_dev.squared.num = 0
     /\ req.result.agreement_percentage = 0
     /\ req.result.reliability_level = AnalysisReliability("very_low")
     /\ req.result.outlier_models = << >>
     /\ req.result.consensus_score = Null

\* the metrics of three results of which one failed and one has no score
C28_Witness ==
  /\ req.pc = "done"
  /\ Len(out.model_results) = 3
  /\ ~out.model_results[1].success
  /\ out.model_results[2].success /\ out.model_results[2].score = Null
  /\ out.model_results[3].success /\ out.model_results[3].score = 800
  /\ req.result.consensus_score = Null

\* C29: with at least 2 qualifying scores, the reliability level is fixed by
\* the agreement percentage a with inclusive lower cut points: very_high iff
\* a >= 90, high iff 75 <= a < 90, medium iff 60 <= a < 75, low iff
\* 40 <= a < 60, very_low iff a < 40.
C29_ReliabilityCutPoints ==
  (/\ req.pc = "done"
   /\ Cardinality({ i \in DOMAIN out.model_results :
                      /\ out.model_results[i].success
                      /\ out.model_results[i].score # Null }) >= 2)
  => LET a == req.result.agreement_percentage
         l == req.result.reliability_level
     IN  /\ l.value \in ReliabilityValues
         /\ l.value = "very_high" <=> a >= 90
         /\ l.value = "high"      <=> (75 <= a /\ a < 90)
         /\ l.value = "medium"    <=> (60 <= a /\ a < 75)
         /\ l.value = "low"       <=> (40 <= a /\ a < 60)
         /\ l.value = "very_low"  <=> a < 40

\* the scores 450, 500, 550: variance 45000 / 18 = 2500, standard deviation
\* 50, mean 500, agreement exactly 90, reliability very_high
C29_Witness ==
  /\ req.pc = "done"
  /\ Len(out.model_results) = 3
  /\ out.model_results[1].score = 450
  /\ out.model_results[2].score = 500
  /\ out.model_results[3].score = 550
  /\ req.result.score_variance = [num |-> 45000, den |-> 18]
  /\ req.result.agreement_percentage = 90
  /\ req.result.reliability_level.value = "very_high"

\* C30: the outlier models are among the models of the successful results
\* that carry a score; when all those scores are equal there is no outlier
\* and the standard deviation is 0.
C30_OutliersAmongScored ==
  req.pc = "done" =>
    LET rs == out.model_results
        qualifying == { i \in DOMAIN rs : rs[i].success /\ rs[i].score # Null }
    IN  /\ \A j \in DOMAIN req.result.outlier_models :
             \E i \in qualifying : rs[i].model = req.result.outlier_models[j]
        /\ (\A i, j \in qualifying : rs[i].score = rs[j].score) =>
             /\ req.result.outlier_models = << >>
             /\ req.result.score_std_dev.squared.num = 0

\* five models scored 500 and the last one 1000: that one is the outlier
C30_Witness ==
  /\ req.pc = "done"
  /\ Len(out.model_results) = 6
  /\ \A i \in 1..5 : out.model_results[i].score = 500
  /\ out.model_results[6].score = 1000
  /\ req.result.outlier_models = << out.model_results[6].model >>
  /\ req.result.consensus_score = 500

\* the metrics but for the list of the outlier models
SameStatistics(a, b) ==
  /\ a.score_variance = b.score_variance
  /\ a.score_std_dev = b.score_std_dev
  /\ a.agreement_percentage = b.agreement_percentage
  /\ a.reliability_level = b.reliability_level
  /\ a.consensus_score = b.consensus_score

\* C31 as stated: the metrics of the same results in another order are
\* identical, the list of outlier models included.
C31_OrderIndependent ==
  [][req.pc = "done" /\ req'.pc = "reordered" => req'.result = req.result]_vars

\* C31: the metrics of the same results in another order have the same
\* variance, standard deviation, agreement, reliability and consensus score
\* and flag the same outlier models; the outlier models are listed in the
\* order of the input, so that the list is identical when fewer than two
\* models are flagged.
C31_OrderIndependentStatistics ==
  [][req.pc = "done" /\ req'.pc = "reordered" =>
       /\ SameStatistics(req'.result, req.result)
       /\ Range(req'.result.outlier_models) = Range(req.result.outlier_models)
       /\ Len(req'.result.outlier_models) = Len(req.result.outlier_models)
       /\ req'.result.outlier_models =
            SelectSeq([i \in 1..Len(out'.model_results) |->
                         out'.model_results[i].model],
                      LAMBDA m : m \in Range(req.result.outlier_models))
       /\ Len(req.result.outlier_models) < 2 =>
            req'.result.outlier_models = req.result.outlier_models]_vars

\* the results that scored 700, 300 and 500 in the order of the registry,
\* computed again with the first two exchanged
C31_Witness ==
  /\ req.pc = "reordered"
  /\ Len(out.model_results) = 3
  /\ out.model_results[1].model = ModelKeys[2] /\ out.model_results[1].score = 300
  /\ out.model_results[2].model = ModelKeys[1] /\ out.model_results[2].score = 700
  /\ out.model_results[3].model = ModelKeys[3] /\ out.model_results[3].score = 500
  /\ req.result.consensus_score = 500
  /\ req.result.agreement_percentage = 60

\* the scores of the successful results that carry one
QualifyingScores(rs) ==
  LET q == SelectSeq(rs, LAMBDA r : r.success /\ r.score # Null)
  IN  [i \in 1..Len(q) |-> q[i].score]

\* v is the median of the scores s, by rank: the middle score of an odd
\* number, the mean of the two middle scores of an even number (integer part)
IsMedian(v, s) ==
  LET k == Len(s)
      atMost(x)  == Cardinality({ i \in 1..k : s[i] <= x })
      atLeast(x) == Cardinality({ i \in 1..k : s[i] >= x })
  IN  IF k % 2 = 1
        THEN \E i \in 1..k : /\ v = s[i]
                             /\ 2 * atMost(v) > k
                             /\ 2 * atLeast(v) > k
        ELSE \E i, j \in 1..k :
               /\ 2 * atMost(s[i]) >= k  /\ 2 * atLeast(s[i]) > k
               /\ 2 * atLeast(s[j]) >= k /\ 2 * atMost(s[j]) > k
               /\ v = (s[i] + s[j]) \div 2

\* the consensus score of the metrics m is the one the results rs call for
ConsensusOf(m, rs) ==
  LET q    == QualifyingScores(rs)
      rest == QualifyingScores(
                SelectSeq(rs, LAMBDA r : r.model \notin Range(m.outlier_models)))
  IN  Len(q) >= 2 =>
        /\ IF rest # << >> THEN IsMedian(m.consensus_score, rest)
           ELSE m.consensus_score = SeqSum(q) \div Len(q)
        /\ \E i \in 1..Len(q) : q[i] <= m.consensus_score
        /\ \E i \in 1..Len(q) : m.consensus_score <= q[i]

\* C32: with at least 2 qualifying results the consensus score is the median
\* of the qualifying scores of the models that are not flagged as outliers
\* (the mean of all qualifying scores if none is left), it lies between the
\* smallest and the largest qualifying score, and the result of analyze_deep
\* carries it as final_score.
C32_ConsensusScore ==
  /\ req.pc \in {"done", "reordered"} => ConsensusOf(req.result, out.model_results)
  /\ req.pc = "assembled" =>
       /\ ConsensusOf(req.result.consensus_metrics, out.model_results)
       /\ req.result.final_score = req.result.consensus_metrics.consensus_score

\* the result built on the scores 500, 500, 500, 502, 502, 1000: the last
\* model is an outlier and the final score is the median 500 of the other
\* five, not the median 501 of the six
C32_Witness ==
  /\ req.pc = "assembled"
  /\ QualifyingScores(out.model_results) = << 500, 500, 500, 502, 502, 1000 >>
  /\ req.result.consensus_metrics.outlier_models = << ModelKeys[6] >>
  /\ req.result.final_score = 500

\* (1 - std_dev / mean) * 100 >= p for the scores s and a whole p: with n
\* scores of sum S and Q the sum of (n*x - S)^2, std_dev / mean is the square
\* root of Q / (S*S*(n-1)), to be at most (100 - p) / 100
AgreementReaches(s, p) ==
  LET n == Len(s)
      S == SeqSum(s)
      Q == SeqSum([i \in 1..n |-> (n * s[i] - S) * (n * s[i] - S)])
  IN  Q <= MulDiv(S * S, (100 - p) * (100 - p) * (n - 1), 10000)

\* C33: with at least 2 qualifying results, agreement_percentage is
\* max(0, (1 - std_dev / mean) * 100) when the mean is positive and 0 when it
\* is 0 (the percentage is kept by its integer part a: the value reaches a
\* and does not reach a + 1), and it lies in 0..100.
C33_Agreement ==
  LET s == QualifyingScores(out.model_results)
      a == req.result.agreement_percentage
  IN  (req.pc \in {"done", "reordered"} /\ Len(s) >= 2) =>
        /\ a \in 0..100
        /\ SeqSum(s) = 0 => a = 0
        /\ SeqSum(s) > 0 =>
             /\ a > 0 => AgreementReaches(s, a)
             /\ a < 100 => ~AgreementReaches(s, a + 1)

\* the scores 0, 0 and 800: the standard deviation is above the mean, so
\* that (1 - std_dev / mean) * 100 is negative, and the agreement is 0
C33_Witness ==
  /\ req.pc = "done"
  /\ QualifyingScores(out.model_results) = << 0, 0, 800 >>
  /\ ~AgreementReaches(QualifyingScores(out.model_results), 0)
  /\ req.result.agreement_percentage = 0
  /\ req.result.reliability_level.value = "very_low"

\* C34: every score that the extractions give lies in 0..1000 unless it is
\* null; a synthesis marker X/T gives X when T = 1000 and X*1000/T otherwise,
\* and no marker or T = 0 gives null.
C34_ScoresInRange ==
  LET fb == out.phase2.feedback
  IN  req.pc = "done" =>
        /\ req.result # Null => req.result \in 0..1000
        /\ req.kind = "extract_synthesis_score" =>
             req.result = IF fb.nota = Null \/ fb.total = 0 THEN Null
                          ELSE IF fb.total = 1000 THEN fb.nota
                          ELSE (fb.nota * 1000) \div fb.total

\* the requests of the two concurrent runs
PairRequests == { req, clients.req }

PairKey == generate_deep_cache_key(Essay(1500), << "T" >>, "full")

\* a result with everything analyze_deep puts into it
CompleteResult(r) ==
  /\ r.model_results # << >>
  /\ r.cache_key = PairKey
  /\ r.consensus_metrics = calculate_consensus_metrics(r.model_results)
  /\ r.final_score = r.consensus_metrics.consensus_score

\* the runs do not hang, what they return is complete, and the cache holds
\* nothing for the key or the complete serialized result of a run that has
\* made its own fan-out
PairSafe ==
  /\ req.pc = "fanout_running" =>
       \A c \in 1..Len(launched) : Finished(c) \/ CanAdvance(c)
  /\ \A r \in PairRequests : r.pc = "done" => CompleteResult(r.result)
  /\ PairKey \in DOMAIN cache =>
       /\ CompleteResult(deserialize_deep_result(cache[PairKey]))
       /\ \E r \in PairRequests :
            /\ r.pc = "done" /\ ~r.from_cache
            /\ cache[PairKey] = serialize_deep_result(r.result)

FailedInvokers ==
  { i \in Invokers : clients[i].pc \in {"logging", "sleeping", "reset"} }

C38_NoOutlierUpToFive ==
  LET q == QualifyingScores(out.model_results)
      plain(m) == /\ m.outlier_models = << >>
                  /\ Len(q) >= MinModelsForConsensus =>
                       IsMedian(m.consensus_score, q)
  IN  /\ req.pc \in {"done", "reordered"} /\ Len(q) <= 5 => plain(req.result)
      /\ req.pc = "assembled" /\ Len(out.model_results) <= MaxConcurrentModels =>
           /\ plain(req.result.consensus_metrics)
           /\ req.result.final_score = req.result.consensus_metrics.consensus_score

\* five qualifying scores, one of them as far from the others as five scores
\* allow (z = 4 / sqrt(5) < 2): no outlier, the consensus is their median
C38_Witness ==
  /\ req.pc = "done"
  /\ QualifyingScores(out.model_results) = << 500, 500, 500, 500, 1000 >>
  /\ req.result.score_variance.num > 0
  /\ req.result.outlier_models = << >>
  /\ req.result.consensus_score = 500

\* what an entry point may fail with: validation, rate limit, no model to
\* use, no result from any model
NonCacheErrors == {"invalid_input", "rate_limit", "no_models", "no_results",
                   "too_long", "empty", "unavailable"}

\* C39: a cache that is disconnected, answers nothing or raises is a cache
\* miss for correct(), analyze() and analyze_enhanced(): a read that fails
\* sends the call on to the rate limiter and the models even when the store
\* holds the key, a write that fails leaves the store and the returned result
\* as they were, and no call fails with an error of the cache
C39_CacheFaultsAreMisses ==
  [][/\ req.pc = "cache_check" /\ ~cacheUp /\ req'.pc # "cache_check" =>
          /\ req'.pc = "rate_limit_check"
          /\ ~req'.from_cache
          /\ req'.result = NoReturn
     /\ req.pc = "cache_write" /\ req'.pc # "cache_write" =>
          /\ req'.pc = "done"
          /\ req'.result = req.result
          /\ ~cacheUp => cache' = cache
     /\ req.pc = "idle" /\ req'.kind = "correct" /\ ~cacheUp =>
          /\ req'.pc = "correct_running"
          /\ ~calls'[1].cached
          /\ calls'[1].st # "cache_get"
     /\ \A c \in CallIds :
          /\ calls[c].st = "cache_set" /\ calls'[c].st # "cache_set" =>
               /\ calls'[c].st = "returned"
               /\ calls'[c].result = calls[c].result
          /\ calls[c].st = "running" /\ calls'[c].st = "returned" /\ ~cacheUp =>
               cache' = cache
     /\ req.pc = "correct_running" /\ req'.pc = "done" =>
          req'.result = calls[1].result
     /\ req'.pc = "failed" => req'.err \in NonCacheErrors
    ]_vars

\* the second analyze() call for an essay whose result the first call has
\* cached: the cache was down at its read and at its write, the call went to
\* the models and returned what it computed, the store still holds the
\* first call's entry
C39_Witness ==
  /\ prev.set
  /\ prev.call.kind = "deep"
  /\ prev.call.pc = "done"
  /\ req.kind = "deep"
  /\ req.pc = "done"
  /\ ~req.from_cache
  /\ ~cacheUp
  /\ launched # << >>
  /\ req.result.model_results = out.model_results
  /\ OrchestratorKey \in DOMAIN cache
  /\ deserialize_deep_result(cache[OrchestratorKey]) = prev.call.result
  /\ prev.call.result # req.result

\* how many times task id stands on the pending, processing, completed and
\* failed lists together
Occurrences(id) ==
  LET count(l) == Cardinality({ i \in 1..Len(l) : l[i] = id })
  IN  SeqSum([i \in 1..Len(Priorities) |->
                count(task_queue.pending[Priorities[i]])])
        + count(task_queue.processing) + count(task_queue.completed)
        + count(task_queue.failed)

OnFailedList(tq, id) == \E i \in 1..Len(tq.failed) : tq.failed[i] = id

\* C40, at every moment: a task is on at most one list, its handler has run
\* at most max_retries + 1 times, a task on the failed list is FAILED and one
\* on the completed list COMPLETED, and a handler that fails every time has
\* used up its executions when its task stands on the failed list
C40_Lists ==
  \A id \in DOMAIN task_queue.data :
    LET task == task_queue.data[id]
    IN  /\ Occurrences(id) <= 1
        /\ task_queue.executed[id] <= task.max_retries + 1
        /\ OnFailedList(task_queue, id) =>
             /\ task.status = "failed"
             /\ task.name = "fails" =>
                  task_queue.executed[id] = task.max_retries + 1
        /\ (\E i \in 1..Len(task_queue.completed) :
              task_queue.completed[i] = id) => task.status = "completed"

\* C40: the list and execution bounds hold at every moment, a task on the
\* failed list stays there and is never queued again, and while the workers
\* run every task taken from a queue ends COMPLETED or FAILED
C40_TaskQueue ==
  /\ []C40_Lists
  /\ [][\A id \in DOMAIN task_queue.data :
          OnFailedList(task_queue, id) =>
            /\ OnFailedList(task_queue', id)
            /\ task_queue'.data[id].status = "failed"
            /\ task_queue'.executed[id] = task_queue.executed[id]]_vars
  /\ \A id \in 1..MaxTasks :
       (id \in DOMAIN task_queue.data /\ Occurrences(id) = 0)
         ~> (\/ ~task_queue.is_running
             \/ /\ id \in DOMAIN task_queue.data
                /\ task_queue.data[id].status \in {"completed", "failed"})

\* a task whose handler fails every time, with max_retries = MaxTaskRetries:
\* executed max_retries + 1 times, FAILED, on the failed list and nowhere else
C40_Witness ==
  /\ task_queue.is_running
  /\ \E id \in DOMAIN task_queue.data :
       /\ task_queue.data[id].name = "fails"
       /\ task_queue.data[id].max_retries = MaxTaskRetries
       /\ task_queue.data[id].retry_count = MaxTaskRetries
       /\ task_queue.data[id].status = "failed"
       /\ task_queue.executed[id] = MaxTaskRetries + 1
       /\ OnFailedList(task_queue, id)
       /\ Occurrences(id) = 1

=============================================================================
